---- MODULE Spec2Model ----
(***************************************************************************)
(* Model of the orchestrator of the nexus-zkvm prover                       *)
(* (prover/src/machine.rs: Machine::prove and Machine::verify) together     *)
(* with the helpers it relies on.  The commitment backend is modelled as    *)
(* an ideal one: a Merkle root is a binding commitment to the committed     *)
(* evaluations, and the Fiat-Shamir channel is the sequence of everything   *)
(* it has absorbed or produced, so two channels yield the same challenges   *)
(* exactly when their histories are equal.                                  *)
(***************************************************************************)
EXTENDS Integers, Sequences, FiniteSets, TLC

VARIABLES
    trace,                  \* input of prove: the execution steps
    view,                   \* input of prove: the emulator's View
    pc,                     \* position inside Machine::prove
    log_size,               \* prove's log_size
    row_idx,                \* loop counter of the fill loop
    chip_idx,               \* next chip of the tuple to run on row_idx
    prover_traces,          \* TracesBuilder being filled
    fill_calls,             \* per row, how many chips have run on it
    prover_side_note,       \* SideNote of this prove call
    finalized_trace,        \* FinalizedTraces of the main trace
    finalized_program_trace,
    prover_channel,         \* Blake2sChannel of the prover
    prover_roots,           \* commitment_scheme.roots() of the prover
    lookup_elements,        \* AllLookupElements drawn by the prover
    interaction_trace,
    claimed_sum,
    prove_result,           \* Result<Proof, ProvingError>
    last_fill,              \* the latest C::fill_main_trace call of a chip
    interaction_args,       \* arguments of the generate_interaction_trace call
    prove_calls,            \* how many times prove has been entered
    side_notes_created,     \* how many times SideNote::new has run
    vpc,                    \* position inside Machine::verify
    vproof,                 \* input of verify: the Proof
    vview,                  \* input of verify: program info, memory, I/O
    sim_channel,            \* channel of the local simulation block
    sim_roots,              \* roots of the local simulation's scheme
    dummy_channel,          \* channel of the placeholder draw
    sizes,                  \* trace_log_degree_bounds of the dummy component
    verifier_channel,       \* Blake2sChannel of the verifier
    verifier_roots,         \* commitments absorbed by the verifier's scheme
    verifier_lookup_elements,
    backend_calls,          \* how many times the backend verifier ran
    verify_result,          \* Result<(), VerificationError>
    bit_op_pc,              \* position in the life of the bitwise lookup
    bit_op_refs,            \* per lookup, how often the chips have made it
    bit_op_side_note,       \* side_note.bit_op: the three multiplicity maps
    bit_op_lookup_elements, \* BitOpLookupElements
    bit_op_preprocessed,    \* BitOpMultiplicity::generate_preprocessed_trace
    bit_op_original,        \* BitOpMultiplicity::generate_original_trace
    bit_op_interaction,     \* logup columns of the table side
    bit_op_claimed_sum,     \* claimed sum returned for the table side
    bit_op_proof,           \* what the run hands to verify: total claimed sum
    bit_op_verify,          \* verify's answer to the claimed-sum check
    bit_op_perturbed,       \* whether a multiplicity was tampered with
    bit_op_relation,        \* the relation entries the constraints declare
    col_pc,                 \* position inside ColumnNameMap::new
    col_items,              \* T::items(): the declaration list
    col_iter,               \* how many items the iterator has yielded
    col_next,               \* `next` of ColumnNameMap::new
    col_map,                \* the BTreeMap being collected
    col_maps,               \* the ColumnNameMap instances constructed so far
    col_call,               \* the latest call on a constructed registry
    row_buf,                \* a row buffer handed to named_slices
    row_slices,             \* the ColumnNameSlices named_slices returned
    gen_pc,                 \* position inside generate_trace
    gen_fn,                 \* generate_trace or generate_secure_field_trace
    gen_log_sizes,          \* argument log_sizes
    gen_execution,          \* argument execution: the fill closure
    gen_columns,            \* local `columns`
    gen_handed,             \* what the closure was handed: `cols`
    gen_reordered,          \* coset_order_to_circle_domain_order(col), per column
    gen_out,                \* the returned ColumnVec, or the panic
    vm_pc,                  \* position in the life of one instruction
    vm_ins,                 \* the bare Instruction
    vm_registers,           \* cpu.registers
    vm_memory,              \* the VariableMemory: the words written
    vm_instruction,         \* the decoded AndInstruction or LwInstruction
    vm_reads,               \* the addresses memory.read was called on
    vm_res                  \* what memory_read or write_back returned

vars == << trace, view, pc, log_size, row_idx, chip_idx, prover_traces,
           fill_calls, prover_side_note, finalized_trace, finalized_program_trace,
           prover_channel, prover_roots, lookup_elements, interaction_trace,
           claimed_sum, prove_result, last_fill, interaction_args, prove_calls,
           side_notes_created, vpc, vproof, vview, sim_channel,
           sim_roots, dummy_channel, sizes, verifier_channel, verifier_roots,
           verifier_lookup_elements, backend_calls, verify_result,
           bit_op_pc, bit_op_refs, bit_op_side_note, bit_op_lookup_elements,
           bit_op_preprocessed, bit_op_original, bit_op_interaction,
           bit_op_claimed_sum, bit_op_proof, bit_op_verify, bit_op_perturbed,
           bit_op_relation,
           col_pc, col_items, col_iter, col_next, col_map, col_maps,
           col_call, row_buf, row_slices,
           gen_pc, gen_fn, gen_log_sizes, gen_execution, gen_columns,
           gen_handed, gen_reordered, gen_out,
           vm_pc, vm_ins, vm_registers, vm_memory, vm_instruction, vm_reads,
           vm_res >>

\* the bitwise lookup extension (extensions/bit_op.rs)
bitOpVars == << bit_op_pc, bit_op_refs, bit_op_side_note,
                bit_op_lookup_elements, bit_op_preprocessed, bit_op_original,
                bit_op_interaction, bit_op_claimed_sum, bit_op_proof,
                bit_op_verify, bit_op_perturbed, bit_op_relation >>

\* the column registry (utils.rs: ColumnNameMap)
columnVars == << col_pc, col_items, col_iter, col_next, col_map, col_maps,
                 col_call, row_buf, row_slices >>

\* the uses of a constructed registry
usageVars == << col_call, row_buf, row_slices >>

\* trace generation (utils.rs: generate_trace, generate_secure_field_trace)
genVars == << gen_pc, gen_fn, gen_log_sizes, gen_execution, gen_columns,
              gen_handed, gen_reordered, gen_out >>

\* the emulator's instructions (vm/src/cpu/instructions/i)
vmVars == << vm_pc, vm_ins, vm_registers, vm_memory, vm_instruction,
             vm_reads, vm_res >>

\* what Machine::prove and Machine::verify never touch
extVars == << bitOpVars, columnVars, genVars, vmVars >>

\* the inputs and locals of Machine::prove and Machine::verify
machineVars == << trace, view, pc, log_size, row_idx, chip_idx, prover_traces,
                  fill_calls, prover_side_note, finalized_trace,
                  finalized_program_trace, prover_channel, prover_roots,
                  lookup_elements, interaction_trace, claimed_sum,
                  prove_result, last_fill, interaction_args, prove_calls,
                  side_notes_created, vpc, vproof,
                  vview, sim_channel, sim_roots, dummy_channel, sizes,
                  verifier_channel, verifier_roots, verifier_lookup_elements,
                  backend_calls, verify_result >>

proverVars == << pc, log_size, row_idx, chip_idx, prover_traces,
                 fill_calls, prover_side_note, finalized_trace, finalized_program_trace,
                 prover_channel, prover_roots, lookup_elements,
                 interaction_trace, claimed_sum, prove_result,
                 last_fill, interaction_args, prove_calls,
                 side_notes_created >>

\* how often prove and SideNote::new have run
countVars == << prove_calls, side_notes_created >>

\* the records of the calls prove has made
callVars == << last_fill, interaction_args, countVars >>

\* what the bitwise lookup extension never touches
outsideBitOp == << machineVars, columnVars, genVars, vmVars >>

\* what the column registry never touches
outsideColumns == << machineVars, bitOpVars, genVars, vmVars >>

\* what trace generation never touches
outsideGen == << machineVars, bitOpVars, columnVars, vmVars >>

\* what an instruction of the emulator never touches
outsideVm == << machineVars, bitOpVars, columnVars, genVars >>

verifierVars == << vpc, vproof, vview, sim_channel, sim_roots, dummy_channel,
                   sizes, verifier_channel, verifier_roots,
                   verifier_lookup_elements, backend_calls, verify_result >>

----------------------------------------------------------------------------
(* Bounds of the model *)

\* longest execution trace explored
MaxSteps == 2

\* largest length the sizing step is exercised with
MaxLen == 17

\* longest declaration list of a made-up column registry
MaxCols == 3

\* largest number of bitwise lookups the consuming chips make
MaxRefs == 2

----------------------------------------------------------------------------
(* Program constants *)

\* PreprocessedTraces::MIN_LOG_SIZE
MIN_LOG_SIZE == 4

\* indices of the four commitment rounds (trace::eval), 0-based as in Rust
PREPROCESSED_TRACE_IDX == 0
ORIGINAL_TRACE_IDX == 1
INTERACTION_TRACE_IDX == 2
PROGRAM_TRACE_IDX == 3

\* v[i] of a Rust Vec / slice held as a TLA+ sequence
At(v, i) == v[i + 1]

\* a padding step, or a cell no chip has written
None == "none"

\* a local that has not been created yet
Absent == << >>

\* BaseComponents: the ordered tuple of chips
BaseComponents ==
    << "CpuChip", "DecodingCheckChip", "AddChip", "SubChip", "SltuChip",
       "BitOpChip", "SltChip", "BneChip", "BeqChip", "BltuChip", "BltChip",
       "BgeuChip", "BgeChip", "JalChip", "LuiChip", "AuipcChip", "JalrChip",
       "SllChip", "SrlChip", "SraChip", "LoadStoreChip", "SyscallChip",
       "ProgramMemCheckChip", "RegisterMemCheckChip", "TimestampChip",
       "RangeCheckChip" >>

NumChips == Len(BaseComponents)

----------------------------------------------------------------------------
(* Inputs *)

\* An execution step: a correct AND, a correct ADD, or an ADD whose
\* recorded result is wrong (an invalid execution).
StepKinds == {"and", "add", "bad_add"}

\* Lookup keys the steps reference in shared tables.
LookupKeys == {"and", "add"}

Traces == UNION { [1..n -> StepKinds] : n \in 0..MaxSteps }

\* Views: a program image and the public memory / I-O entries.
Views ==
    { [program |-> "p1", program_len |-> 6,  init_len |-> 1, exit_len |-> 1, out_len |-> 0],
      [program |-> "p2", program_len |-> 6,  init_len |-> 1, exit_len |-> 1, out_len |-> 0],
      [program |-> "p3", program_len |-> 17, init_len |-> 0, exit_len |-> 1, out_len |-> 1] }

ValidTrace(t) == \A i \in 1..Len(t) : t[i] # "bad_add"

----------------------------------------------------------------------------
(* Arithmetic helpers *)

RECURSIVE Pow2(_)
Pow2(n) == IF n = 0 THEN 1 ELSE 2 * Pow2(n - 1)

\* the position of the highest set bit (ilog2), not rounded up
RECURSIVE Log2Floor(_, _)
Log2Floor(size, l) == IF Pow2(l + 1) > size THEN l ELSE Log2Floor(size, l + 1)

\* usize::next_power_of_two followed by trailing_zeros
RECURSIVE Log2Ceil(_, _)
Log2Ceil(size, l) == IF Pow2(l) >= size THEN l ELSE Log2Ceil(size, l + 1)

MaxOf(S) == CHOOSE x \in S : \A y \in S : y <= x

\* Machine::max_log_size
max_log_size(szs) == MaxOf({ Log2Ceil(szs[i], 0) : i \in 1..Len(szs) })

\* log_size as computed at the start of prove
ProveLogSize(t, v) ==
    LET num_steps == Len(t)
        program_len == v.program_len
        memory_len == v.init_len + v.exit_len + v.out_len
        l == max_log_size(<< num_steps, program_len, memory_len >>)
    IN  IF l >= MIN_LOG_SIZE THEN l ELSE MIN_LOG_SIZE

----------------------------------------------------------------------------
(* Ideal commitment backend and Fiat-Shamir channel *)

\* Blake2sChannel::default()
DefaultChannel == << >>

\* Merkle root of a batch of column evaluations: a binding commitment
MerkleRoot(evals) == [root |-> evals]

\* MerkleChannel::mix_root: the channel absorbs a root
MixRoot(channel, root) == Append(channel, [mix |-> root])

\* the elements a draw returns are determined by what the channel absorbed
DrawnElements(channel) == [z |-> channel]

\* drawing advances the channel
AfterDraw(channel) == Append(channel, [draw |-> "lookup_elements"])

\* coset_order_to_circle_domain_order
coset_order_to_circle_domain_order(values) ==
    LET n == Len(values)
        half_len == n \div 2
    IN  [ j \in 1..(2 * half_len) |->
            IF j <= half_len
            THEN At(values, 2 * (j - 1))
            ELSE At(values, n - 1 - 2 * (j - 1 - half_len)) ]

\* reversal of the low `bits` bits of i
RECURSIVE RevBits(_, _)
RevBits(i, bits) ==
    IF bits = 0 THEN 0
    ELSE (i % 2) * Pow2(bits - 1) + RevBits(i \div 2, bits - 1)

\* stwo's bit_reverse on a column of length 2^log_n
bit_reverse(values, log_n) ==
    [ j \in 1..Len(values) |-> At(values, RevBits(j - 1, log_n)) ]

\* into_circle_evaluation: rows in the backend's domain order
into_circle_evaluation(rows, log_n) ==
    bit_reverse(coset_order_to_circle_domain_order(rows), log_n)

----------------------------------------------------------------------------
(* Traces, chips and the lookup argument *)

\* PreprocessedTraces::new(log_size): a pure function of log_size
PreprocessedTraces(l) == [phase |-> "preprocessed", log_size |-> l]

\* ProgramTracesBuilder::new(log_size, program, init, exit, output).finalize()
ProgramTraces(l, v) == [phase |-> "program", log_size |-> l, view |-> v]

\* a zero-filled row of the main trace
ZeroRow == [value |-> None, mult |-> [ k \in LookupKeys |-> 0 ]]

\* TracesBuilder::new(log_size): 2^log_size zero rows
TracesBuilder(l) == [ r \in 1..Pow2(l) |-> ZeroRow ]

\* SideNote::new: no lookup has been counted yet
NewSideNote == [ k \in LookupKeys |-> 0 ]

\* iter_program_steps(trace, num_rows): the steps, then padding
ProgramStep(t, r) == IF r < Len(t) THEN At(t, r) ELSE None

\* the chip that owns a step, and the table entry the step looks up
InstructionChip(step) == IF step = "and" THEN "BitOpChip" ELSE "AddChip"
LookupKey(step) == IF step = "and" THEN "and" ELSE "add"

\* one chip's fill_main_trace: its effect on the side note
ChipFillSideNote(chip, step, side_note) ==
    IF step # None /\ chip = InstructionChip(step)
    THEN [side_note EXCEPT ![LookupKey(step)] = @ + 1]
    ELSE side_note

\* one chip's fill_main_trace: its effect on row r of the trace; the last
\* chip stores the accumulated multiplicities when it reaches the last row
ChipFillRow(chip, r, num_rows, step, row, side_note) ==
    LET written == IF step # None /\ chip = InstructionChip(step)
                   THEN [row EXCEPT !.value = step]
                   ELSE row
    IN  IF chip = "RangeCheckChip" /\ r = num_rows - 1
        THEN [written EXCEPT !.mult = side_note]
        ELSE written

\* the additive identity of the logup sum: every tuple cancels
ZeroSum == [ k \in LookupKeys |-> 0 ]

\* a sum in which one tuple does not cancel
NonZeroSum == [ k \in LookupKeys |-> IF k = "and" THEN 1 ELSE 0 ]

\* per looked-up tuple: references in the rows minus the table multiplicity
LogupSum(ft) ==
    LET mult == ft[Len(ft)].mult
    IN  [ k \in LookupKeys |->
            Cardinality({ r \in 1..Len(ft) :
                            ft[r].value # None /\ LookupKey(ft[r].value) = k })
            - mult[k] ]

\* generate_interaction_trace::<C>(main, preprocessed, program, elements)
GenerateInteractionTrace(ft, pre, prog, elements) ==
    [ trace |-> [ phase |-> "interaction",
                  fractions |-> [ r \in 1..Len(ft) |-> ft[r] ],
                  elements |-> elements ],
      claimed_sum |-> LogupSum(ft) ]

\* MachineComponent::new(.., MachineEval::new(log_size, elements), claimed_sum)
MachineComponent(l, elements, sum) ==
    [ log_size |-> l, lookup_elements |-> elements, claimed_sum |-> sum ]

\* trace_log_degree_bounds(): column sizes of the four phases
TraceLogDegreeBounds(component) ==
    [ idx \in 0..3 |-> component.log_size ]

\* the AIR's constraints over a concrete main trace and claimed sum
ConstraintsSatisfied(ft, component) ==
    /\ \A r \in 1..Len(ft) : ft[r].value # "bad_add"
    /\ component.claimed_sum = LogupSum(ft)

\* stwo's prove: a proof bound to the commitments, the transcript and the
\* component, or ConstraintsNotSatisfied
BackendProve(component, channel, roots, ft) ==
    IF ConstraintsSatisfied(ft, component)
    THEN [ ok |-> TRUE,
           stark_proof |-> [ commitments |-> roots,
                             transcript |-> channel,
                             component |-> component ] ]
    ELSE [ ok |-> FALSE, err |-> "ConstraintsNotSatisfied" ]

\* stwo's verify: accepts exactly when the verifier's transcript,
\* commitments, column sizes and component are those the proof was made for
BackendVerify(component, channel, committed, stark_proof) ==
    IF /\ channel = stark_proof.transcript
       /\ component = stark_proof.component
       /\ Len(committed) = Len(stark_proof.commitments)
       /\ \A i \in 1..Len(committed) :
             /\ committed[i].root = stark_proof.commitments[i]
             /\ committed[i].sizes = stark_proof.component.log_size
    THEN [ ok |-> TRUE ]
    ELSE [ ok |-> FALSE, err |-> "BackendVerificationError" ]

----------------------------------------------------------------------------
(* Machine::prove *)

\* tree_builder.extend_evals(evals); tree_builder.commit(channel)
CommitRound(roots, channel, evals) ==
    [ roots |-> Append(roots, MerkleRoot(evals)),
      channel |-> MixRoot(channel, MerkleRoot(evals)) ]

\* a preprocessed trace of the minimum size, whatever log_size is
PreprocessedEvalsOfMinSize == PreprocessedTraces(MIN_LOG_SIZE)

\* the evaluations committed in each of the prover's rounds
PreprocessedEvals == PreprocessedTraces(log_size)
MainEvals ==
    [ phase |-> "main",
      columns |-> into_circle_evaluation(finalized_trace, log_size) ]
InteractionEvals == interaction_trace
ProgramEvals == finalized_program_trace

\* the position that follows `stage` in an ordered list of stages
StageAfter(stages, stage) ==
    IF \E i \in 1..(Len(stages) - 1) : stages[i] = stage
    THEN stages[(CHOOSE i \in 1..(Len(stages) - 1) : stages[i] = stage) + 1]
    ELSE "done"

\* prove with the lookup elements drawn before the main trace is committed
ProveStagesDrawBeforeMain ==
    << "fill", "finalize", "commit_preprocessed", "draw", "commit_main",
       "interaction", "commit_interaction", "commit_program", "backend" >>

\* prove with the program trace committed before the interaction trace
ProveStagesProgramBeforeInteraction ==
    << "fill", "finalize", "commit_preprocessed", "commit_main", "draw",
       "interaction", "commit_program", "commit_interaction", "backend" >>

\* prove with the program trace committed before the challenges are drawn
ProveStagesProgramBeforeDraw ==
    << "fill", "finalize", "commit_preprocessed", "commit_main",
       "commit_program", "draw", "interaction", "commit_interaction",
       "backend" >>

\* prove with the main trace finalized before the fill loop
ProveStagesFinalizeBeforeFill ==
    << "finalize", "fill", "commit_preprocessed", "commit_main", "draw",
       "interaction", "commit_interaction", "commit_program", "backend" >>

\* the statements of prove after its setup, in program order
ProveStages ==
    << "fill", "finalize", "commit_preprocessed", "commit_main", "draw",
       "interaction", "commit_interaction", "commit_program", "backend" >>

\* log_size, channel, commitment scheme, trace buffers, side note
ProveSetup ==
    /\ pc = "start"
    /\ prove_calls' = prove_calls + 1
    /\ log_size' = ProveLogSize(trace, view)
    /\ prover_channel' = DefaultChannel
    /\ prover_roots' = << >>
    /\ prover_traces' = TracesBuilder(log_size')
    /\ fill_calls' = [ r \in 1..Pow2(log_size') |-> 0 ]
    /\ prover_side_note' = NewSideNote
    /\ side_notes_created' = side_notes_created + 1
    /\ row_idx' = 0
    /\ chip_idx' = 1
    /\ pc' = ProveStages[1]
    /\ UNCHANGED << trace, view, finalized_trace, finalized_program_trace,
                    lookup_elements, interaction_trace, claimed_sum,
                    prove_result >>
    /\ UNCHANGED verifierVars
    /\ UNCHANGED extVars
    /\ UNCHANGED << last_fill, interaction_args >>

\* the chip the fill loop runs next on the current row
NextChip == BaseComponents[chip_idx]

\* the fill loop with its nesting inverted: each chip runs over every row
\* before the next chip of the tuple starts
FillMainTraceChipMajor ==
    /\ pc = "fill"
    /\ LET step == ProgramStep(trace, row_idx)
           note == ChipFillSideNote(NextChip, step, prover_side_note)
       IN  /\ prover_side_note' = note
           /\ prover_traces' =
                 [prover_traces EXCEPT ![row_idx + 1] =
                     ChipFillRow(NextChip, row_idx, Len(prover_traces), step,
                                 @, note)]
           /\ last_fill' = [ row |-> row_idx, pos |-> chip_idx,
                             chip |-> NextChip, step |-> step ]
    /\ fill_calls' = [fill_calls EXCEPT ![row_idx + 1] = @ + 1]
    /\ IF row_idx + 1 < Len(prover_traces)
       THEN row_idx' = row_idx + 1 /\ chip_idx' = chip_idx
       ELSE IF chip_idx < NumChips
            THEN row_idx' = 0 /\ chip_idx' = chip_idx + 1
            ELSE row_idx' = Len(prover_traces) /\ chip_idx' = 1
    /\ pc' = IF row_idx' < Len(prover_traces)
             THEN pc
             ELSE StageAfter(ProveStages, "fill")
    /\ UNCHANGED << trace, view, log_size, finalized_trace,
                    finalized_program_trace, prover_channel, prover_roots,
                    lookup_elements, interaction_trace, claimed_sum,
                    prove_result >>
    /\ UNCHANGED verifierVars
    /\ UNCHANGED extVars
    /\ UNCHANGED interaction_args
    /\ UNCHANGED countVars

\* C::fill_main_trace(traces, row_idx, step, side_note), one chip at a time
\* in tuple order; the row is done when the last chip of the tuple has run
FillMainTrace ==
    /\ pc = "fill"
    /\ LET step == ProgramStep(trace, row_idx)
           note == ChipFillSideNote(NextChip, step, prover_side_note)
       IN  /\ prover_side_note' = note
           /\ prover_traces' =
                 [prover_traces EXCEPT ![row_idx + 1] =
                     ChipFillRow(NextChip, row_idx, Len(prover_traces), step,
                                 @, note)]
           /\ last_fill' = [ row |-> row_idx, pos |-> chip_idx,
                             chip |-> NextChip, step |-> step ]
    /\ fill_calls' = [fill_calls EXCEPT ![row_idx + 1] = @ + 1]
    /\ IF chip_idx < NumChips
       THEN chip_idx' = chip_idx + 1 /\ row_idx' = row_idx
       ELSE chip_idx' = 1 /\ row_idx' = row_idx + 1
    /\ pc' = IF row_idx' < Len(prover_traces)
             THEN pc
             ELSE StageAfter(ProveStages, "fill")
    /\ UNCHANGED << trace, view, log_size, finalized_trace,
                    finalized_program_trace, prover_channel, prover_roots,
                    lookup_elements, interaction_trace, claimed_sum,
                    prove_result >>
    /\ UNCHANGED verifierVars
    /\ UNCHANGED extVars
    /\ UNCHANGED interaction_args
    /\ UNCHANGED countVars

\* prover_traces.finalize(); program_traces.finalize()
Finalize ==
    /\ pc = "finalize"
    /\ finalized_trace' = prover_traces
    /\ finalized_program_trace' = ProgramTraces(log_size, view)
    /\ pc' = StageAfter(ProveStages, "finalize")
    /\ UNCHANGED << trace, view, log_size, row_idx, chip_idx, prover_traces,
                    fill_calls, prover_side_note, prover_channel, prover_roots,
                    lookup_elements, interaction_trace, claimed_sum,
                    prove_result >>
    /\ UNCHANGED verifierVars
    /\ UNCHANGED extVars
    /\ UNCHANGED callVars

\* a commitment round of the prover; what it leaves alone
ProverCommit(evals) ==
    LET round == CommitRound(prover_roots, prover_channel, evals)
    IN  /\ prover_roots' = round.roots
        /\ prover_channel' = round.channel
        /\ UNCHANGED << trace, view, log_size, row_idx, chip_idx,
                        prover_traces, fill_calls, prover_side_note,
                        finalized_trace, finalized_program_trace,
                        lookup_elements, interaction_trace, claimed_sum,
                        prove_result >>
        /\ UNCHANGED verifierVars
        /\ UNCHANGED extVars
        /\ UNCHANGED callVars

CommitPreprocessed ==
    /\ pc = "commit_preprocessed"
    /\ ProverCommit(PreprocessedEvals)
    /\ pc' = StageAfter(ProveStages, "commit_preprocessed")

CommitMain ==
    /\ pc = "commit_main"
    /\ ProverCommit(MainEvals)
    /\ pc' = StageAfter(ProveStages, "commit_main")

\* C::draw_lookup_elements(&mut lookup_elements, prover_channel)
DrawLookupElements ==
    /\ pc = "draw"
    /\ lookup_elements' = DrawnElements(prover_channel)
    /\ prover_channel' = AfterDraw(prover_channel)
    /\ pc' = StageAfter(ProveStages, "draw")
    /\ UNCHANGED << trace, view, log_size, row_idx, chip_idx, prover_traces,
                    fill_calls, prover_side_note, finalized_trace,
                    finalized_program_trace, prover_roots, interaction_trace,
                    claimed_sum, prove_result >>
    /\ UNCHANGED verifierVars
    /\ UNCHANGED extVars
    /\ UNCHANGED callVars

\* interaction-trace generation that is handed the side note and takes the
\* table multiplicities from it
GenerateInteractionFromSideNote ==
    /\ pc = "interaction"
    /\ interaction_args' =
          [ prover_side_note |-> prover_side_note,
            lookup_elements |-> lookup_elements ]
    /\ interaction_trace' =
          [ phase |-> "interaction",
            fractions |-> interaction_args'.prover_side_note,
            elements |-> interaction_args'.lookup_elements ]
    /\ claimed_sum' = LogupSum(finalized_trace)
    /\ pc' = StageAfter(ProveStages, "interaction")
    /\ UNCHANGED << trace, view, log_size, row_idx, chip_idx, prover_traces,
                    fill_calls, prover_side_note, finalized_trace,
                    finalized_program_trace, prover_channel, prover_roots,
                    lookup_elements, prove_result >>
    /\ UNCHANGED verifierVars
    /\ UNCHANGED extVars
    /\ UNCHANGED last_fill
    /\ UNCHANGED countVars

\* generate_interaction_trace::<C>(..)
GenerateInteraction ==
    /\ pc = "interaction"
    /\ interaction_args' =
          [ finalized_trace |-> finalized_trace,
            preprocessed_trace |-> PreprocessedTraces(log_size),
            finalized_program_trace |-> finalized_program_trace,
            lookup_elements |-> lookup_elements ]
    /\ LET gen == GenerateInteractionTrace(
                      interaction_args'.finalized_trace,
                      interaction_args'.preprocessed_trace,
                      interaction_args'.finalized_program_trace,
                      interaction_args'.lookup_elements)
       IN  /\ interaction_trace' = gen.trace
           /\ claimed_sum' = gen.claimed_sum
    /\ pc' = StageAfter(ProveStages, "interaction")
    /\ UNCHANGED << trace, view, log_size, row_idx, chip_idx, prover_traces,
                    fill_calls, prover_side_note, finalized_trace,
                    finalized_program_trace, prover_channel, prover_roots,
                    lookup_elements, prove_result >>
    /\ UNCHANGED verifierVars
    /\ UNCHANGED extVars
    /\ UNCHANGED last_fill
    /\ UNCHANGED countVars

CommitInteraction ==
    /\ pc = "commit_interaction"
    /\ ProverCommit(InteractionEvals)
    /\ pc' = StageAfter(ProveStages, "commit_interaction")

CommitProgram ==
    /\ pc = "commit_program"
    /\ ProverCommit(ProgramEvals)
    /\ pc' = StageAfter(ProveStages, "commit_program")

\* prove whose Proof carries the minimum log_size instead of the one used
ProveBackendMinLogSize ==
    /\ pc = "backend"
    /\ LET component == MachineComponent(log_size, lookup_elements, claimed_sum)
           res == BackendProve(component, prover_channel, prover_roots,
                               finalized_trace)
       IN  prove_result' =
             IF res.ok
             THEN [ ok |-> TRUE,
                    proof |-> [ stark_proof |-> res.stark_proof,
                                claimed_sum |-> claimed_sum,
                                log_size |-> MIN_LOG_SIZE ] ]
             ELSE res
    /\ pc' = StageAfter(ProveStages, "backend")
    /\ UNCHANGED << trace, view, log_size, row_idx, chip_idx, prover_traces,
                    fill_calls, prover_side_note, finalized_trace,
                    finalized_program_trace, prover_channel, prover_roots,
                    lookup_elements, interaction_trace, claimed_sum >>
    /\ UNCHANGED verifierVars
    /\ UNCHANGED extVars
    /\ UNCHANGED callVars

\* prove(&[&component], prover_channel, commitment_scheme)? and Ok(Proof {..})
ProveBackend ==
    /\ pc = "backend"
    /\ LET component == MachineComponent(log_size, lookup_elements, claimed_sum)
           res == BackendProve(component, prover_channel, prover_roots,
                               finalized_trace)
       IN  prove_result' =
             IF res.ok
             THEN [ ok |-> TRUE,
                    proof |-> [ stark_proof |-> res.stark_proof,
                                claimed_sum |-> claimed_sum,
                                log_size |-> log_size ] ]
             ELSE res
    /\ pc' = StageAfter(ProveStages, "backend")
    /\ UNCHANGED << trace, view, log_size, row_idx, chip_idx, prover_traces,
                    fill_calls, prover_side_note, finalized_trace,
                    finalized_program_trace, prover_channel, prover_roots,
                    lookup_elements, interaction_trace, claimed_sum >>
    /\ UNCHANGED verifierVars
    /\ UNCHANGED extVars
    /\ UNCHANGED callVars

\* what prove leaves behind when it returns: its locals are dropped
DroppedLocals ==
    /\ log_size' = 0
    /\ row_idx' = 0
    /\ chip_idx' = 0
    /\ prover_traces' = Absent
    /\ fill_calls' = Absent
    /\ finalized_trace' = Absent
    /\ finalized_program_trace' = Absent
    /\ prover_channel' = Absent
    /\ prover_roots' = Absent
    /\ lookup_elements' = Absent
    /\ interaction_trace' = Absent
    /\ claimed_sum' = Absent
    /\ last_fill' = Absent
    /\ interaction_args' = Absent

\* a return of prove after which the Side Note is still alive
ProveReturnKeepingSideNote ==
    /\ pc = "done"
    /\ vpc = "idle"
    /\ DroppedLocals
    /\ pc' = "returned"
    /\ UNCHANGED << trace, view, prove_result, prover_side_note, countVars >>
    /\ UNCHANGED verifierVars
    /\ UNCHANGED extVars

\* prove returns its Result to the caller: every local, the Side Note
\* among them, goes out of scope
ProveReturn ==
    /\ pc = "done"
    /\ vpc = "idle"
    /\ DroppedLocals
    /\ prover_side_note' = Absent
    /\ pc' = "returned"
    /\ UNCHANGED << trace, view, prove_result, countVars >>
    /\ UNCHANGED verifierVars
    /\ UNCHANGED extVars

\* how many calls of prove a run makes
MaxCalls == 2

\* the caller calls prove again, on a trace and a view of its choice
ProveCall ==
    /\ pc = "returned"
    /\ prove_calls < MaxCalls
    /\ trace' \in Traces
    /\ view' \in Views
    /\ prove_result' = Absent
    /\ pc' = "start"
    /\ UNCHANGED << log_size, row_idx, chip_idx, prover_traces, fill_calls,
                    prover_side_note, finalized_trace,
                    finalized_program_trace, prover_channel, prover_roots,
                    lookup_elements, interaction_trace, claimed_sum >>
    /\ UNCHANGED callVars
    /\ UNCHANGED verifierVars
    /\ UNCHANGED extVars

----------------------------------------------------------------------------
(* Machine::verify *)

\* a root that commits to none of the honest traces
BogusRoot == MerkleRoot([ phase |-> "bogus" ])

\* choices of the commitment a forger replaces (4: none)
TamperChoices == 0..4

\* the proofs verify may be handed: the prover's own, and forgeries that
\* change its claimed sum, its log_size, or one of its commitments
CandidateProofs(p) ==
    { [ stark_proof |->
          [ p.stark_proof EXCEPT !.commitments =
              [ i \in 1..Len(@) |-> IF i = idx + 1 THEN BogusRoot ELSE @[i] ] ],
        claimed_sum |-> sum,
        log_size |-> l ] :
      idx \in TamperChoices,
      sum \in { p.claimed_sum, NonZeroSum },
      l \in { p.log_size, p.log_size + 1 } }

\* verify with the program-trace commitment absorbed before the
\* interaction-trace commitment
VerifyStagesProgramBeforeInteraction ==
    << "check_claimed_sum", "simulate_preprocessed", "check_preprocessed",
       "simulate_program", "check_program", "dummy_component",
       "commit_preprocessed", "commit_main", "draw", "commit_program",
       "commit_interaction", "backend" >>

\* verify with the claimed-sum check placed after the first simulation
VerifyStagesSumCheckLate ==
    << "simulate_preprocessed", "check_claimed_sum", "check_preprocessed",
       "simulate_program", "check_program", "dummy_component",
       "commit_preprocessed", "commit_main", "draw", "commit_interaction",
       "commit_program", "backend" >>

\* verify with the program-trace check placed after the commitments
VerifyStagesProgramCheckLate ==
    << "check_claimed_sum", "simulate_preprocessed", "check_preprocessed",
       "dummy_component", "commit_preprocessed", "commit_main", "draw",
       "commit_interaction", "commit_program", "simulate_program",
       "check_program", "backend" >>

\* verify with the lookup elements drawn after the interaction commitment
VerifyStagesDrawLate ==
    << "check_claimed_sum", "simulate_preprocessed", "check_preprocessed",
       "simulate_program", "check_program", "dummy_component",
       "commit_preprocessed", "commit_main", "commit_interaction", "draw",
       "commit_program", "backend" >>

\* the statements of verify, in program order
VerifyStages ==
    << "check_claimed_sum", "simulate_preprocessed", "check_preprocessed",
       "simulate_program", "check_program", "dummy_component",
       "commit_preprocessed", "commit_main", "draw", "commit_interaction",
       "commit_program", "backend" >>

InvalidStructure(msg) == [ ok |-> FALSE, err |-> "InvalidStructure", msg |-> msg ]

\* verify is called on a proof, with the public inputs of some view
VerifyCall ==
    /\ pc = "done"
    /\ prove_result.ok
    /\ vpc = "idle"
    /\ vproof' \in CandidateProofs(prove_result.proof)
    /\ vview' \in Views
    /\ vpc' = VerifyStages[1]
    /\ UNCHANGED << trace, view, sim_channel, sim_roots, dummy_channel, sizes,
                    verifier_channel, verifier_roots,
                    verifier_lookup_elements, backend_calls, verify_result >>
    /\ UNCHANGED proverVars
    /\ UNCHANGED extVars

\* verify returns `res`
VerifyReturn(res) ==
    /\ verify_result' = res
    /\ vpc' = "done"

\* if claimed_sum != SecureField::zero() { return Err(..) }
CheckClaimedSum ==
    /\ vpc = "check_claimed_sum"
    /\ IF vproof.claimed_sum # ZeroSum
       THEN VerifyReturn(InvalidStructure("claimed logup sum is not zero"))
       ELSE vpc' = StageAfter(VerifyStages, "check_claimed_sum") /\ UNCHANGED verify_result
    /\ UNCHANGED << trace, view, vproof, vview, sim_channel, sim_roots,
                    dummy_channel, sizes, verifier_channel, verifier_roots,
                    verifier_lookup_elements, backend_calls >>
    /\ UNCHANGED proverVars
    /\ UNCHANGED extVars

\* the simulation block commits the preprocessed trace on the verifier's
\* channel instead of one of its own
SimulatePreprocessedOnVerifierChannel ==
    /\ vpc = "simulate_preprocessed"
    /\ verifier_roots' = << >>
    /\ LET round == CommitRound(<< >>, DefaultChannel,
                                PreprocessedTraces(vproof.log_size))
       IN  /\ sim_roots' = round.roots
           /\ sim_channel' = round.channel
           /\ verifier_channel' = round.channel
    /\ vpc' = StageAfter(VerifyStages, "simulate_preprocessed")
    /\ UNCHANGED << trace, view, vproof, vview, dummy_channel, sizes,
                    verifier_lookup_elements, backend_calls, verify_result >>
    /\ UNCHANGED proverVars
    /\ UNCHANGED extVars

\* the verifier's channel and scheme are created; the simulation block
\* commits the preprocessed trace on a channel and scheme of its own
SimulatePreprocessed ==
    /\ vpc = "simulate_preprocessed"
    /\ verifier_channel' = DefaultChannel
    /\ verifier_roots' = << >>
    /\ LET round == CommitRound(<< >>, DefaultChannel,
                                PreprocessedTraces(vproof.log_size))
       IN  /\ sim_roots' = round.roots
           /\ sim_channel' = round.channel
    /\ vpc' = StageAfter(VerifyStages, "simulate_preprocessed")
    /\ UNCHANGED << trace, view, vproof, vview, dummy_channel, sizes,
                    verifier_lookup_elements, backend_calls, verify_result >>
    /\ UNCHANGED proverVars
    /\ UNCHANGED extVars

\* the main-trace commitment is read instead of the preprocessed one
preprocessed_commitment_of_main(commitments) ==
    At(commitments, ORIGINAL_TRACE_IDX)

\* let preprocessed = proof.commitments[PREPROCESSED_TRACE_IDX]
preprocessed_commitment(commitments) ==
    At(commitments, PREPROCESSED_TRACE_IDX)

\* preprocessed_expected != preprocessed
CheckPreprocessed ==
    /\ vpc = "check_preprocessed"
    /\ LET preprocessed_expected == At(sim_roots, PREPROCESSED_TRACE_IDX)
           preprocessed == preprocessed_commitment(vproof.stark_proof.commitments)
       IN  IF preprocessed_expected # preprocessed
           THEN VerifyReturn(InvalidStructure("invalid commitment to preprocessed trace"))
           ELSE vpc' = StageAfter(VerifyStages, "check_preprocessed") /\ UNCHANGED verify_result
    /\ UNCHANGED << trace, view, vproof, vview, sim_channel, sim_roots,
                    dummy_channel, sizes, verifier_channel, verifier_roots,
                    verifier_lookup_elements, backend_calls >>
    /\ UNCHANGED proverVars
    /\ UNCHANGED extVars

\* the simulation block commits the recomputed program trace
SimulateProgram ==
    /\ vpc = "simulate_program"
    /\ LET round == CommitRound(sim_roots, sim_channel,
                                ProgramTraces(vproof.log_size, vview))
       IN  /\ sim_roots' = round.roots
           /\ sim_channel' = round.channel
    /\ vpc' = StageAfter(VerifyStages, "simulate_program")
    /\ UNCHANGED << trace, view, vproof, vview, dummy_channel, sizes,
                    verifier_channel, verifier_roots,
                    verifier_lookup_elements, backend_calls, verify_result >>
    /\ UNCHANGED proverVars
    /\ UNCHANGED extVars

\* the first root of the simulation is read instead of the second
program_expected_first_root(roots) == At(roots, 0)

\* let program_expected = commitment_scheme.roots()[1]
program_expected(roots) == At(roots, 1)

\* program_expected != proof.commitments[PROGRAM_TRACE_IDX]
CheckProgram ==
    /\ vpc = "check_program"
    /\ LET expected == program_expected(sim_roots)
           program == At(vproof.stark_proof.commitments, PROGRAM_TRACE_IDX)
       IN  IF expected # program
           THEN VerifyReturn(InvalidStructure("invalid commitment to program trace"))
           ELSE vpc' = StageAfter(VerifyStages, "check_program") /\ UNCHANGED verify_result
    /\ UNCHANGED << trace, view, vproof, vview, sim_channel, sim_roots,
                    dummy_channel, sizes, verifier_channel, verifier_roots,
                    verifier_lookup_elements, backend_calls >>
    /\ UNCHANGED proverVars
    /\ UNCHANGED extVars

\* the placeholder component built for the minimum size instead of the
\* proof's log_size
DummyComponentOfMinSize ==
    /\ vpc = "dummy_component"
    /\ dummy_channel' = AfterDraw(DefaultChannel)
    /\ sizes' = TraceLogDegreeBounds(
                    MachineComponent(MIN_LOG_SIZE,
                                     DrawnElements(DefaultChannel),
                                     vproof.claimed_sum))
    /\ vpc' = StageAfter(VerifyStages, "dummy_component")
    /\ UNCHANGED << trace, view, vproof, vview, sim_channel, sim_roots,
                    verifier_channel, verifier_roots,
                    verifier_lookup_elements, backend_calls, verify_result >>
    /\ UNCHANGED proverVars
    /\ UNCHANGED extVars

\* placeholder lookup elements from a dummy channel; sizes of the AIR
DummyComponent ==
    /\ vpc = "dummy_component"
    /\ dummy_channel' = AfterDraw(DefaultChannel)
    /\ sizes' = TraceLogDegreeBounds(
                    MachineComponent(vproof.log_size,
                                     DrawnElements(DefaultChannel),
                                     vproof.claimed_sum))
    /\ vpc' = StageAfter(VerifyStages, "dummy_component")
    /\ UNCHANGED << trace, view, vproof, vview, sim_channel, sim_roots,
                    verifier_channel, verifier_roots,
                    verifier_lookup_elements, backend_calls, verify_result >>
    /\ UNCHANGED proverVars
    /\ UNCHANGED extVars

\* commitment_scheme.commit(proof.commitments[idx], &sizes[idx], channel)
VerifierCommit(idx) ==
    LET root == At(vproof.stark_proof.commitments, idx)
    IN  /\ verifier_roots' =
              Append(verifier_roots, [ root |-> root, sizes |-> sizes[idx] ])
        /\ verifier_channel' = MixRoot(verifier_channel, root)
        /\ UNCHANGED << trace, view, vproof, vview, sim_channel, sim_roots,
                        dummy_channel, sizes, verifier_lookup_elements,
                        backend_calls, verify_result >>
        /\ UNCHANGED proverVars
        /\ UNCHANGED extVars

VerifyCommitPreprocessed ==
    /\ vpc = "commit_preprocessed"
    /\ VerifierCommit(PREPROCESSED_TRACE_IDX)
    /\ vpc' = StageAfter(VerifyStages, "commit_preprocessed")

VerifyCommitMain ==
    /\ vpc = "commit_main"
    /\ VerifierCommit(ORIGINAL_TRACE_IDX)
    /\ vpc' = StageAfter(VerifyStages, "commit_main")

\* C::draw_lookup_elements(&mut lookup_elements, verifier_channel)
VerifyDrawLookupElements ==
    /\ vpc = "draw"
    /\ verifier_lookup_elements' = DrawnElements(verifier_channel)
    /\ verifier_channel' = AfterDraw(verifier_channel)
    /\ vpc' = StageAfter(VerifyStages, "draw")
    /\ UNCHANGED << trace, view, vproof, vview, sim_channel, sim_roots,
                    dummy_channel, sizes, verifier_roots, backend_calls,
                    verify_result >>
    /\ UNCHANGED proverVars
    /\ UNCHANGED extVars

VerifyCommitInteraction ==
    /\ vpc = "commit_interaction"
    /\ VerifierCommit(INTERACTION_TRACE_IDX)
    /\ vpc' = StageAfter(VerifyStages, "commit_interaction")

VerifyCommitProgram ==
    /\ vpc = "commit_program"
    /\ VerifierCommit(PROGRAM_TRACE_IDX)
    /\ vpc' = StageAfter(VerifyStages, "commit_program")

\* verify that runs the backend verifier but discards its verdict
VerifyBackendDiscardingResult ==
    /\ vpc = "backend"
    /\ VerifyReturn([ ok |-> TRUE ])
    /\ backend_calls' = backend_calls + 1
    /\ UNCHANGED << trace, view, vproof, vview, sim_channel, sim_roots,
                    dummy_channel, sizes, verifier_channel, verifier_roots,
                    verifier_lookup_elements >>
    /\ UNCHANGED proverVars
    /\ UNCHANGED extVars

\* verify(&[&component], verifier_channel, commitment_scheme, proof)
VerifyBackend ==
    /\ vpc = "backend"
    /\ LET component == MachineComponent(vproof.log_size,
                                         verifier_lookup_elements,
                                         vproof.claimed_sum)
       IN  VerifyReturn(BackendVerify(component, verifier_channel,
                                      verifier_roots, vproof.stark_proof))
    /\ backend_calls' = backend_calls + 1
    /\ UNCHANGED << trace, view, vproof, vview, sim_channel, sim_roots,
                    dummy_channel, sizes, verifier_channel, verifier_roots,
                    verifier_lookup_elements >>
    /\ UNCHANGED proverVars
    /\ UNCHANGED extVars

----------------------------------------------------------------------------
(* The bitwise lookup table: extensions/bit_op.rs *)

\* BitOpMultiplicityEval::LOG_SIZE
LOG_SIZE == 8

\* stwo's LOG_N_LANES: a packed row holds 2^LOG_N_LANES table entries
LOG_N_LANES == 4

\* the modulus of BaseField (M31)
M31_P == 2147483647

\* the operations, in the order the table handles them
BitOps == << "And", "Or", "Xor" >>

\* one bit of b & c, b | c, b ^ c
BitOf(op, x, y) ==
    CASE op = "And" -> x * y
      [] op = "Or"  -> x + y - x * y
      [] op = "Xor" -> (x + y) % 2

\* the native bitwise operations on unsigned integers
RECURSIVE Bitwise(_, _, _)
Bitwise(op, b, c) ==
    IF b = 0 /\ c = 0
    THEN 0
    ELSE BitOf(op, b % 2, c % 2) + 2 * Bitwise(op, b \div 2, c \div 2)

\* (0u8..16).flat_map(|b| (0u8..16).map(move |c| (b, c)))
RECURSIVE range_iter(_)
range_iter(b) ==
    IF b >= 16
    THEN << >>
    ELSE [ j \in 1..16 |-> << b, j - 1 >> ] \o range_iter(b + 1)

\* BaseColumn::from_iter(range_iter.clone().map(f))
column_from_iter(it, op) ==
    [ i \in 1..Len(it) |->
        CASE op = "b" -> it[i][1]
          [] op = "c" -> it[i][2]
          [] OTHER    -> Bitwise(op, it[i][1], it[i][2]) ]

\* the five columns over the pairs `it`, the OR column computed as b ^ c
table_columns_or_as_xor(it) ==
    << column_from_iter(it, "b"), column_from_iter(it, "c"),
       column_from_iter(it, "And"), column_from_iter(it, "Xor"),
       column_from_iter(it, "Xor") >>

\* vec![column_b, column_c, column_and, column_or, column_xor]
table_columns(it) ==
    << column_from_iter(it, "b"), column_from_iter(it, "c"),
       column_from_iter(it, "And"), column_from_iter(it, "Or"),
       column_from_iter(it, "Xor") >>

\* BitOpMultiplicity::preprocessed_base_columns: b, c, b & c, b | c, b ^ c
preprocessed_base_columns == table_columns(range_iter(0))

\* CircleEvaluation::new(CanonicCoset::new(LOG_SIZE).circle_domain(), col)
CircleEvaluation(log_n, col) == [ log_size |-> log_n, values |-> col ]

\* base_cols.into_iter().map(|col| CircleEvaluation::new(domain, col))
circle_evaluations(base_cols) ==
    [ k \in 1..Len(base_cols) |-> CircleEvaluation(LOG_SIZE, base_cols[k]) ]

\* BitOpMultiplicity::generate_preprocessed_trace
generate_preprocessed_trace == circle_evaluations(preprocessed_base_columns)

\* u32 -> BaseField
ToBaseField(x) == x % M31_P

\* HashMap::get(&i).copied().unwrap_or_default()
MapGet(m, k) == IF k \in DOMAIN m THEN m[k] ELSE 0

\* SideNote::new, bit_op part: three empty multiplicity maps
NewBitOpSideNote == [ op \in { "And", "Or", "Xor" } |-> << >> ]

\* the three multiplicity columns with row i reading key i instead of i - 1
base_columns_one_based(side_note) ==
    [ k \in 1..Len(BitOps) |->
        [ i \in 1..256 |-> ToBaseField(MapGet(side_note[BitOps[k]], i)) ] ]

\* BitOpMultiplicity::base_columns: the three multiplicity columns
base_columns(side_note) ==
    [ k \in 1..Len(BitOps) |->
        [ i \in 1..256 |-> ToBaseField(MapGet(side_note[BitOps[k]], i - 1)) ] ]

\* BitOpMultiplicity::generate_original_trace
generate_original_trace(side_note) ==
    circle_evaluations(base_columns(side_note))

\* LookupElements::combine: the denominator of a looked-up tuple; distinct
\* tuples get distinct denominators
combine(lookup_element, tuple) == [ z |-> lookup_element, tuple |-> tuple ]

\* SecureField::zero(): the sum in which every denominator has cancelled
SecureFieldZero == << >>

RECURSIVE SumNumerators(_, _)
SumNumerators(S, fracs) ==
    IF S = {}
    THEN 0
    ELSE LET i == CHOOSE j \in S : TRUE
         IN  fracs[i].num + SumNumerators(S \ {i}, fracs)

\* the sum of a sequence of fractions num / denom, as the net numerator
\* over each denominator that does not cancel
SumOfFractions(fracs) ==
    LET live == { i \in 1..Len(fracs) : fracs[i].num % M31_P # 0 }
        net == [ d \in { fracs[i].denom : i \in live } |->
                   SumNumerators({ i \in live : fracs[i].denom = d }, fracs) ]
    IN  [ d \in { e \in DOMAIN net : net[e] % M31_P # 0 } |-> net[d] ]

\* addition of two such sums
AddSums(s, t) ==
    LET raw == [ d \in DOMAIN s \cup DOMAIN t |-> MapGet(s, d) + MapGet(t, d) ]
    IN  [ d \in { e \in DOMAIN raw : raw[e] % M31_P # 0 } |-> raw[d] ]

\* the table entries, packed row by packed row
TableEntries == 1..(Pow2(LOG_SIZE - LOG_N_LANES) * Pow2(LOG_N_LANES))

\* logup_trace_gen.finalize_last(): the columns and the sum of all of them
finalize_last(cols) ==
    [ columns |-> cols,
      claimed_sum |-> SumOfFractions(cols[1] \o cols[2] \o cols[3]) ]

\* the logup columns with the multiplicity itself written as numerator
logup_columns_unsigned(pre, base, lookup_element) ==
    [ k \in 1..Len(BitOps) |->
        [ e \in TableEntries |->
            [ num |-> base[k][e],
              denom |-> combine(lookup_element,
                                << BitOps[k], pre[1][e], pre[2][e],
                                   pre[2 + k][e] >>) ] ] ]

\* for (op_type, answer_a, mult) in [And, Or, Xor]: one logup column with
\* write_frac(row, -mult[row], combine([op_type, b[row], c[row], a[row]]))
logup_columns(pre, base, lookup_element) ==
    [ k \in 1..Len(BitOps) |->
        [ e \in TableEntries |->
            [ num |-> -base[k][e],
              denom |-> combine(lookup_element,
                                << BitOps[k], pre[1][e], pre[2][e],
                                   pre[2 + k][e] >>) ] ] ]

\* BitOpMultiplicity::generate_interaction_trace
bit_op_generate_interaction_trace(side_note, lookup_element) ==
    finalize_last(logup_columns(preprocessed_base_columns,
                                base_columns(side_note), lookup_element))

\* the consuming chips: a lookup of (op, b, c) computes the result natively
BitOpReference(op, b, c) ==
    [ op |-> op, b |-> b, c |-> c, a |-> Bitwise(op, b, c) ]

\* the consuming chips count each lookup under the key of its table row
BitOpCount(side_note, ref) ==
    LET key == 16 * ref.b + ref.c
    IN  [ side_note EXCEPT ![ref.op] =
            (key :> (MapGet(@, key) + 1)) @@ @ ]

\* how many lookups the consuming chips have made
RECURSIVE NumLookups(_, _)
NumLookups(S, refs) ==
    IF S = {}
    THEN 0
    ELSE LET r == CHOOSE x \in S : TRUE
         IN  refs[r] + NumLookups(S \ {r}, refs)

\* the denominator a lookup contributes to
RefDenominator(ref, lookup_element) ==
    combine(lookup_element, << ref.op, ref.b, ref.c, ref.a >>)

\* the consuming side of the logup: every lookup adds +1 / combine(tuple)
ConsumingSum(refs, lookup_element) ==
    [ d \in { RefDenominator(r, lookup_element) : r \in DOMAIN refs } |->
        NumLookups({ r \in DOMAIN refs :
                       RefDenominator(r, lookup_element) = d }, refs) ]

\* the values the drawn BitOpLookupElements may take
BitOpChallenges == { "z1", "z2" }

\* the operand pairs the consuming chips look up
LookupPairs == { << 3, 5 >>, << 12, 10 >> }

\* generate_preprocessed_trace, and the side note of the run
BitOpGeneratePreprocessed ==
    /\ bit_op_pc = "start"
    /\ bit_op_preprocessed' = generate_preprocessed_trace
    /\ bit_op_side_note' = NewBitOpSideNote
    /\ bit_op_pc' = "fill"
    /\ UNCHANGED << bit_op_refs, bit_op_lookup_elements, bit_op_original,
                    bit_op_interaction, bit_op_claimed_sum, bit_op_proof,
                    bit_op_verify, bit_op_perturbed >>
    /\ UNCHANGED bit_op_relation
    /\ UNCHANGED outsideBitOp

\* a consuming chip looks (op, b, c) up while it fills its row
BitOpLookup ==
    /\ bit_op_pc = "fill"
    /\ NumLookups(DOMAIN bit_op_refs, bit_op_refs) < MaxRefs
    /\ \E k \in 1..Len(BitOps), pair \in LookupPairs :
          LET ref == BitOpReference(BitOps[k], pair[1], pair[2])
          IN  /\ bit_op_refs' =
                    (ref :> (MapGet(bit_op_refs, ref) + 1)) @@ bit_op_refs
              /\ bit_op_side_note' = BitOpCount(bit_op_side_note, ref)
    /\ UNCHANGED << bit_op_pc, bit_op_lookup_elements, bit_op_preprocessed,
                    bit_op_original, bit_op_interaction, bit_op_claimed_sum,
                    bit_op_proof, bit_op_verify, bit_op_perturbed >>
    /\ UNCHANGED bit_op_relation
    /\ UNCHANGED outsideBitOp

\* the fill loop is over
BitOpEndFill ==
    /\ bit_op_pc = "fill"
    /\ bit_op_pc' = "original"
    /\ UNCHANGED << bit_op_refs, bit_op_side_note, bit_op_lookup_elements,
                    bit_op_preprocessed, bit_op_original, bit_op_interaction,
                    bit_op_claimed_sum, bit_op_proof, bit_op_verify,
                    bit_op_perturbed >>
    /\ UNCHANGED bit_op_relation
    /\ UNCHANGED outsideBitOp

\* generate_original_trace(side_note); the lookup elements are drawn once
\* the original trace is committed, and may come out as any challenge
BitOpGenerateOriginal ==
    /\ bit_op_pc = "original"
    /\ bit_op_original' = generate_original_trace(bit_op_side_note)
    /\ bit_op_lookup_elements' \in BitOpChallenges
    /\ bit_op_pc' = "interaction"
    /\ UNCHANGED << bit_op_refs, bit_op_side_note, bit_op_preprocessed,
                    bit_op_interaction, bit_op_claimed_sum, bit_op_proof,
                    bit_op_verify, bit_op_perturbed >>
    /\ UNCHANGED bit_op_relation
    /\ UNCHANGED outsideBitOp

\* generate_interaction_trace(side_note, lookup_elements); the claimed sum
\* of the proof adds the consuming side to the table side
BitOpGenerateInteraction ==
    /\ bit_op_pc = "interaction"
    /\ LET gen == bit_op_generate_interaction_trace(bit_op_side_note,
                                                    bit_op_lookup_elements)
           consuming == ConsumingSum(bit_op_refs, bit_op_lookup_elements)
       IN  /\ bit_op_interaction' = gen.columns
           /\ bit_op_claimed_sum' = gen.claimed_sum
           /\ bit_op_proof' =
                 [ claimed_sum |-> AddSums(consuming, gen.claimed_sum) ]
    /\ bit_op_pc' = "verify"
    /\ UNCHANGED << bit_op_refs, bit_op_side_note, bit_op_lookup_elements,
                    bit_op_preprocessed, bit_op_original, bit_op_verify,
                    bit_op_perturbed >>
    /\ UNCHANGED bit_op_relation
    /\ UNCHANGED outsideBitOp

\* a claimed-sum check that lets every sum pass
claimed_sum_check_skipped(sum) == [ ok |-> TRUE ]

\* if claimed_sum != SecureField::zero() { return Err(InvalidStructure(..)) }
claimed_sum_check(sum) ==
    IF sum # SecureFieldZero
    THEN InvalidStructure("claimed logup sum is not zero")
    ELSE [ ok |-> TRUE ]

\* verify's first check, on the claimed sum of the proof
BitOpCheckClaimedSum ==
    /\ bit_op_pc = "verify"
    /\ bit_op_verify' = claimed_sum_check(bit_op_proof.claimed_sum)
    /\ bit_op_pc' = "done"
    /\ UNCHANGED << bit_op_refs, bit_op_side_note, bit_op_lookup_elements,
                    bit_op_preprocessed, bit_op_original, bit_op_interaction,
                    bit_op_claimed_sum, bit_op_proof, bit_op_perturbed >>
    /\ UNCHANGED bit_op_relation
    /\ UNCHANGED outsideBitOp

\* the ids under which evaluate asks for the preprocessed columns
PREPROCESSED_COL_IDS ==
    << "preprocessed_bitwise_input_b", "preprocessed_bitwise_input_c",
       "preprocessed_bitwise_output_and", "preprocessed_bitwise_output_or",
       "preprocessed_bitwise_output_xor" >>

\* eval.get_preprocessed_column(id) at one row: the value of the column of
\* the preprocessed trace that is registered under id
get_preprocessed_column(preprocessed, id, row) ==
    LET k == CHOOSE j \in 1..Len(PREPROCESSED_COL_IDS) :
                 PREPROCESSED_COL_IDS[j] = id
    IN  preprocessed[k].values[row]

\* eval.next_trace_mask(), the n-th call, at one row
next_trace_mask(original, n, row) == original[n].values[row]

\* RelationEntry::new(&self.lookup_elements, numerator, values)
RelationEntry(lookup_element, numerator, values) ==
    [ num |-> numerator, denom |-> combine(lookup_element, values) ]

\* evaluate with the multiplicities of OR and XOR exchanged
evaluate_mults_exchanged(lookup_element, preprocessed, original, row) ==
    LET answer_b == get_preprocessed_column(preprocessed, PREPROCESSED_COL_IDS[1], row)
        answer_c == get_preprocessed_column(preprocessed, PREPROCESSED_COL_IDS[2], row)
        answer_a_and == get_preprocessed_column(preprocessed, PREPROCESSED_COL_IDS[3], row)
        answer_a_or == get_preprocessed_column(preprocessed, PREPROCESSED_COL_IDS[4], row)
        answer_a_xor == get_preprocessed_column(preprocessed, PREPROCESSED_COL_IDS[5], row)
        mult_and == next_trace_mask(original, 1, row)
        mult_or == next_trace_mask(original, 2, row)
        mult_xor == next_trace_mask(original, 3, row)
        entries == << << "And", answer_a_and, mult_and >>,
                      << "Or", answer_a_or, mult_xor >>,
                      << "Xor", answer_a_xor, mult_or >> >>
    IN  [ k \in 1..3 |->
            RelationEntry(lookup_element, -entries[k][3],
                          << entries[k][1], answer_b, answer_c,
                             entries[k][2] >>) ]

\* BitOpMultiplicityEval::evaluate at one row: the three relation entries
\* added by add_to_relation, in the order of the for loop
evaluate(lookup_element, preprocessed, original, row) ==
    LET answer_b == get_preprocessed_column(preprocessed, PREPROCESSED_COL_IDS[1], row)
        answer_c == get_preprocessed_column(preprocessed, PREPROCESSED_COL_IDS[2], row)
        answer_a_and == get_preprocessed_column(preprocessed, PREPROCESSED_COL_IDS[3], row)
        answer_a_or == get_preprocessed_column(preprocessed, PREPROCESSED_COL_IDS[4], row)
        answer_a_xor == get_preprocessed_column(preprocessed, PREPROCESSED_COL_IDS[5], row)
        mult_and == next_trace_mask(original, 1, row)
        mult_or == next_trace_mask(original, 2, row)
        mult_xor == next_trace_mask(original, 3, row)
        entries == << << "And", answer_a_and, mult_and >>,
                      << "Or", answer_a_or, mult_or >>,
                      << "Xor", answer_a_xor, mult_xor >> >>
    IN  [ k \in 1..3 |->
            RelationEntry(lookup_element, -entries[k][3],
                          << entries[k][1], answer_b, answer_c,
                             entries[k][2] >>) ]

\* the component built by FrameworkEvalExt::new(lookup_elements) is
\* evaluated on every row of the table once the claimed sum has passed
BitOpEvaluate ==
    /\ bit_op_pc = "done"
    /\ bit_op_verify.ok
    /\ bit_op_relation = Absent
    /\ bit_op_relation' =
          [ row \in TableEntries |->
              evaluate(bit_op_lookup_elements, bit_op_preprocessed,
                       bit_op_original, row) ]
    /\ UNCHANGED << bit_op_pc, bit_op_refs, bit_op_side_note,
                    bit_op_lookup_elements, bit_op_preprocessed,
                    bit_op_original, bit_op_interaction, bit_op_claimed_sum,
                    bit_op_proof, bit_op_verify, bit_op_perturbed >>
    /\ UNCHANGED outsideBitOp

\* the keys whose multiplicity a test tampers with: looked-up rows and a
\* row nothing looks up
PerturbKeys == { 16 * 3 + 5, 255 }

\* the values a tampered multiplicity (a u32) is changed to
PerturbValues(old) ==
    { old + 1 } \cup (IF old > 0 THEN { old - 1 } ELSE { M31_P })

\* a test changes exactly one multiplicity entry of the side note after
\* the fill and before the interaction trace is generated
PerturbSideNote ==
    /\ bit_op_pc \in { "original", "interaction" }
    /\ bit_op_perturbed = Absent
    /\ \E k \in 1..Len(BitOps), key \in PerturbKeys :
          LET op == BitOps[k]
              old == MapGet(bit_op_side_note[op], key)
          IN  \E new \in PerturbValues(old) :
                /\ bit_op_side_note' =
                      [ bit_op_side_note EXCEPT ![op] = (key :> new) @@ @ ]
                /\ bit_op_perturbed' =
                      [ op |-> op, key |-> key, old |-> old, new |-> new ]
    /\ UNCHANGED << bit_op_pc, bit_op_refs, bit_op_lookup_elements,
                    bit_op_preprocessed, bit_op_original, bit_op_interaction,
                    bit_op_claimed_sum, bit_op_proof, bit_op_verify >>
    /\ UNCHANGED bit_op_relation
    /\ UNCHANGED outsideBitOp

----------------------------------------------------------------------------
(* The column registry: utils.rs, ColumnNameMap *)

\* machine2/column.rs: enum Column, each variant with its #[size = n]
Column ==
    <<
       [ name |-> "Clk", size |-> 4 ],
       [ name |-> "Pc", size |-> 4 ],
       [ name |-> "Opcode", size |-> 1 ],
       [ name |-> "OpA", size |-> 1 ],
       [ name |-> "OpB", size |-> 1 ],
       [ name |-> "OpC", size |-> 1 ],
       [ name |-> "CarryFlag", size |-> 4 ],
       [ name |-> "ImmB", size |-> 1 ],
       [ name |-> "ImmC", size |-> 1 ],
       [ name |-> "InstructionWord", size |-> 4 ],
       [ name |-> "PrevCtr", size |-> 4 ],
       [ name |-> "ValueA", size |-> 4 ],
       [ name |-> "ValueAEffective", size |-> 4 ],
       [ name |-> "TsA", size |-> 4 ],
       [ name |-> "PrevA", size |-> 4 ],
       [ name |-> "PrevTsA", size |-> 4 ],
       [ name |-> "ValueB", size |-> 4 ],
       [ name |-> "TsB", size |-> 4 ],
       [ name |-> "PrevB", size |-> 4 ],
       [ name |-> "PrevTsB", size |-> 4 ],
       [ name |-> "ValueC", size |-> 4 ],
       [ name |-> "TsC", size |-> 4 ],
       [ name |-> "PrevC", size |-> 4 ],
       [ name |-> "PrevTsC", size |-> 4 ],
       [ name |-> "IsAdd", size |-> 1 ],
       [ name |-> "IsSub", size |-> 1 ],
       [ name |-> "IsSltu", size |-> 1 ],
       [ name |-> "Helper1", size |-> 4 ],
       [ name |-> "Multiplicity256", size |-> 1 ],
       [ name |-> "ValueAEffectiveFlag", size |-> 1 ] >>

\* machine2/column.rs: enum PreprocessedColumn
PreprocessedColumn ==
    << [ name |-> "IsFirst", size |-> 1 ], [ name |-> "Range256", size |-> 1 ] >>

\* made-up declarations: up to MaxCols distinct names, any of these sizes
ColumnNames == { "A", "B", "C", "D" }
ColumnSizes == { 0, 1, 4 }

ColumnLists ==
    { l \in UNION { [ 1..n -> [ name : ColumnNames, size : ColumnSizes ] ] :
                       n \in 0..MaxCols } :
        \A i, j \in 1..Len(l) : l[i].name = l[j].name => i = j }

\* the declaration lists T::items() a registry is constructed from
DeclarationLists == { Column, PreprocessedColumn } \cup ColumnLists

\* let mut next = 0; T::items().into_iter()
ColumnNameMapNew ==
    /\ col_pc = "new"
    /\ col_next' = 0
    /\ col_iter' = 0
    /\ col_map' = << >>
    /\ col_pc' = "collect"
    /\ UNCHANGED << col_items, col_maps >>
    /\ UNCHANGED usageVars
    /\ UNCHANGED outsideColumns

\* the closure with `next += size` run before the range is formed
ColumnNameMapItemAdvanceFirst ==
    /\ col_pc = "collect"
    /\ col_iter < Len(col_items)
    /\ LET col == col_items[col_iter + 1]
           size == col.size
           range == [ start |-> col_next', end |-> col_next' + size ]
       IN  /\ col_next' = col_next + size
           /\ col_map' = (col.name :> range) @@ col_map
    /\ col_iter' = col_iter + 1
    /\ UNCHANGED << col_pc, col_items, col_maps >>
    /\ UNCHANGED usageVars
    /\ UNCHANGED outsideColumns

\* .map(|col| { let size = col.size(); let range = next..next + size;
\*              next += size; (col, range) }), one item collected
ColumnNameMapItem ==
    /\ col_pc = "collect"
    /\ col_iter < Len(col_items)
    /\ LET col == col_items[col_iter + 1]
           size == col.size
           range == [ start |-> col_next, end |-> col_next + size ]
       IN  /\ col_next' = col_next + size
           /\ col_map' = (col.name :> range) @@ col_map
    /\ col_iter' = col_iter + 1
    /\ UNCHANGED << col_pc, col_items, col_maps >>
    /\ UNCHANGED usageVars
    /\ UNCHANGED outsideColumns

\* Self { next, map }; the registry may then be constructed once more
ColumnNameMapReturn ==
    /\ col_pc = "collect"
    /\ col_iter = Len(col_items)
    /\ col_maps' = Append(col_maps, [ next |-> col_next, map |-> col_map ])
    /\ col_pc' = IF Len(col_maps') < 2 THEN "new" ELSE "done"
    /\ UNCHANGED << col_items, col_iter, col_next, col_map >>
    /\ UNCHANGED usageVars
    /\ UNCHANGED outsideColumns

\* ColumnNameMap::total_columns
total_columns(self) == self.next

\* a panic of the callee: no value is returned
Panic(msg) == [ ok |-> FALSE, panic |-> msg ]
Returned(value) == [ ok |-> TRUE, value |-> value ]

\* nth_col with the bound of the assertion off by one
nth_col_inclusive(self, name, offset) ==
    IF name \notin DOMAIN self.map
    THEN Panic("no entry found for key")
    ELSE LET range == self.map[name]
         IN  IF ~(offset <= range.end - range.start)
             THEN Panic("assertion failed")
             ELSE Returned(range.start + offset)

\* ColumnNameMap::nth_col: let range = &self[name];
\* assert!(offset < range.end - range.start); range.start + offset
nth_col(self, name, offset) ==
    IF name \notin DOMAIN self.map
    THEN Panic("no entry found for key")
    ELSE LET range == self.map[name]
         IN  IF ~(offset < range.end - range.start)
             THEN Panic("assertion failed")
             ELSE Returned(range.start + offset)

\* values.split_at_mut(mid): the first mid cells and the rest
split_at_mut(values, mid) ==
    [ a |-> SubSeq(values, 1, mid), b |-> SubSeq(values, mid + 1, Len(values)) ]

\* ColumnNameSlices { map }
ColumnNameSlices(map) == [ ok |-> TRUE, map |-> map ]

\* the loop of named_slices without `values = b`
RECURSIVE named_slices_loop_no_advance(_, _, _, _)
named_slices_loop_no_advance(items, i, values, map) ==
    IF i > Len(items)
    THEN ColumnNameSlices(map)
    ELSE LET col == items[i]
             mid == col.size
         IN  IF mid > Len(values)
             THEN Panic("mid > len")
             ELSE named_slices_loop_no_advance(items, i + 1, values,
                     (col.name :> split_at_mut(values, mid).a) @@ map)

\* for col in T::items() { let mid = col.size();
\*   let (a, b) = values.split_at_mut(mid); values = b; map.insert(col, a); }
\* from the i-th item on; a slice is the sequence of the buffer cells it
\* borrows
RECURSIVE named_slices_loop(_, _, _, _)
named_slices_loop(items, i, values, map) ==
    IF i > Len(items)
    THEN ColumnNameSlices(map)
    ELSE LET col == items[i]
             mid == col.size
         IN  IF mid > Len(values)
             THEN Panic("mid > len")
             ELSE named_slices_loop(items, i + 1, split_at_mut(values, mid).b,
                     (col.name :> split_at_mut(values, mid).a) @@ map)

\* ColumnNameMap::named_slices
named_slices(items, values) == named_slices_loop(items, 1, values, << >>)

\* a buffer of len cells, and the mutable borrow of all of it
ZeroBuffer(len) == [ k \in 1..len |-> 0 ]
Cells(len) == [ k \in 1..len |-> k - 1 ]

\* the lengths of the buffers handed to named_slices: a row of the
\* registry's width, one limb less, one limb more
BufferLens ==
    LET width == total_columns(col_maps[1])
    IN  { width, width + 1 } \cup (IF width > 0 THEN { width - 1 } ELSE {})

\* the names a caller may pass: the declared ones and undeclared ones
CallNames == ColumnNames \cup { col_items[i].name : i \in 1..Len(col_items) }

\* the offsets a caller may pass: inside and past the widest column
CallOffsets == 0..(MaxOf(ColumnSizes) + 1)

\* a call of nth_col on the constructed registry
NthCol ==
    /\ col_pc = "done"
    /\ \E name \in CallNames, offset \in CallOffsets :
          col_call' = [ fn |-> "nth_col", name |-> name, offset |-> offset,
                        result |-> nth_col(col_maps[1], name, offset) ]
    /\ UNCHANGED << col_pc, col_items, col_iter, col_next, col_map, col_maps,
                    row_buf, row_slices >>
    /\ UNCHANGED outsideColumns

\* T: Ord, the order of the names as keys: the variants of an enum in the
\* order of their declaration, the made-up names alphabetically
KeyOrder ==
    [ i \in 1..Len(Column) |-> Column[i].name ]
        \o [ i \in 1..Len(PreprocessedColumn) |-> PreprocessedColumn[i].name ]
        \o << "A", "B", "C", "D" >>

KeyRank(name) == CHOOSE i \in 1..Len(KeyOrder) : KeyOrder[i] = name

\* BTreeMap::iter: the entries in ascending order of their keys
RECURSIVE btree_iter(_, _)
btree_iter(map, keys) ==
    IF keys = {}
    THEN << >>
    ELSE LET first == CHOOSE k \in keys :
                          \A other \in keys : KeyRank(k) <= KeyRank(other)
         IN  << << first, map[first] >> >> \o btree_iter(map, keys \ { first })

\* ColumnNameMap::ranges: self.map.iter()
ranges(self) == btree_iter(self.map, DOMAIN self.map)

\* self.next_interaction_mask(interaction, offsets): the masks of the next
\* column of the interaction, one for each offset
next_interaction_mask(interaction, offsets, column) ==
    [ i \in 1..Len(offsets) |->
        [ interaction |-> interaction, column |-> column,
          offset |-> offsets[i] ] ]

\* for (name, range) in names.ranges() { for _ in 0..size { .. push(mask) } }
\* from the i-th entry on, with `column` masks already taken
RECURSIVE lookup_trace_masks_loop(_, _, _, _, _, _)
lookup_trace_masks_loop(rs, i, interaction, offsets, column, values) ==
    IF i > Len(rs)
    THEN values
    ELSE LET name == rs[i][1]
             range == rs[i][2]
             size == range.end - range.start
             pushed == [ n \in 1..Len(offsets) |->
                           IF size = 0
                           THEN values[n]
                           ELSE (name :>
                                   [ j \in 1..size |->
                                       next_interaction_mask(
                                           interaction, offsets,
                                           column + j - 1)[n] ])
                                @@ values[n] ]
         IN  lookup_trace_masks_loop(rs, i + 1, interaction, offsets,
                                     column + size, pushed)

\* EvalAtRowExtra::lookup_trace_masks_with_offsets on a fresh evaluator
lookup_trace_masks_with_offsets(names, interaction, offsets) ==
    lookup_trace_masks_loop(ranges(names), 1, interaction, offsets, 0,
                            [ n \in 1..Len(offsets) |-> << >> ])

\* the interactions and mask offsets a caller asks for; lookup_trace_masks
\* asks for interaction 0 and offset 0
MaskInteractions == { 0, 1 }
MaskOffsets == { << 0 >>, << -1, 0 >> }

\* a call of lookup_trace_masks_with_offsets on the constructed registry
LookupTraceMasks ==
    /\ col_pc = "done"
    /\ \E interaction \in MaskInteractions, offsets \in MaskOffsets :
          col_call' = [ fn |-> "lookup_trace_masks_with_offsets",
                        interaction |-> interaction, offsets |-> offsets,
                        result |-> lookup_trace_masks_with_offsets(
                                       col_maps[1], interaction, offsets) ]
    /\ UNCHANGED << col_pc, col_items, col_iter, col_next, col_map, col_maps,
                    row_buf, row_slices >>
    /\ UNCHANGED outsideColumns

\* a call of named_slices on a fresh buffer
NamedSlices ==
    /\ col_pc = "done"
    /\ \E len \in BufferLens :
          /\ row_buf' = ZeroBuffer(len)
          /\ row_slices' = named_slices(col_items, Cells(len))
          /\ col_call' = [ fn |-> "named_slices", len |-> len ]
    /\ col_pc' = "slices"
    /\ UNCHANGED << col_items, col_iter, col_next, col_map, col_maps >>
    /\ UNCHANGED outsideColumns

\* slices[name][index] = 1: index_mut (get_mut(&index).unwrap()), then the
\* bounds-checked write into the slice; the first write into the buffer
SliceWrite ==
    /\ col_pc = "slices"
    /\ row_slices.ok
    /\ row_buf = ZeroBuffer(Len(row_buf))
    /\ \E name \in CallNames, index \in CallOffsets :
          LET result ==
                  IF name \notin DOMAIN row_slices.map
                  THEN Panic("unwrap on a None value")
                  ELSE IF index >= Len(row_slices.map[name])
                  THEN Panic("index out of bounds")
                  ELSE Returned(At(row_slices.map[name], index))
          IN  /\ col_call' = [ fn |-> "write", name |-> name,
                                offset |-> index, result |-> result ]
              /\ row_buf' = IF result.ok
                             THEN [ row_buf EXCEPT ![result.value + 1] = 1 ]
                             ELSE row_buf
    /\ UNCHANGED << col_pc, col_items, col_iter, col_next, col_map, col_maps,
                    row_slices >>
    /\ UNCHANGED outsideColumns

----------------------------------------------------------------------------
(* Trace generation: utils.rs, generate_trace, generate_secure_field_trace *)

\* the largest log_size and the largest number of columns requested
MaxGenLog == 3
MaxGenCols == 2

GenFunctions == { "generate_trace", "generate_secure_field_trace" }

\* BaseField::zero(), SecureField::zero(): a secure-field element is its
\* four base-field coordinates
FieldZero(fn) == IF fn = "generate_trace" THEN 0 ELSE << 0, 0, 0, 0 >>

\* a column one row short of 1 << log_size
zero_column_short(fn, l) == [ r \in 1..(Pow2(l) - 1) |-> FieldZero(fn) ]

\* let rows = 1 << log_size as usize; vec![F::zero(); rows]
zero_column(fn, l) == [ r \in 1..Pow2(l) |-> FieldZero(fn) ]

\* the fill closures: one that writes nothing, one that marks every row of
\* every column, one that marks the first column only, one that indexes a
\* column past its end
Executions == { "none", "mark_rows", "mark_first_column", "past_the_end" }

\* the non-zero value a marking closure writes at row r of column c
Mark(fn, c, r) ==
    LET label == 100 * c + r + 1
    IN  IF fn = "generate_trace" THEN label
        ELSE << label, 2 * label, 3 * label, 4 * label >>

\* execution(cols.as_mut_slice()): the closure writes through the slices;
\* an index past the end of a slice panics
execution(kind, fn, cols) ==
    CASE kind = "none" -> Returned(cols)
      [] kind = "mark_rows" ->
            Returned([ c \in DOMAIN cols |->
                         [ r \in DOMAIN cols[c] |-> Mark(fn, c - 1, r - 1) ] ])
      [] kind = "mark_first_column" ->
            Returned([ c \in DOMAIN cols |->
                         IF c = 1
                         THEN [ r \in DOMAIN cols[c] |-> Mark(fn, 0, r - 1) ]
                         ELSE cols[c] ])
      [] kind = "past_the_end" -> Panic("index out of bounds")

\* let (mut columns, domains) = log_sizes.into_iter().map(..).unzip();
\* let mut cols = columns.iter_mut().map(|c| c.as_mut_slice()).collect();
GenerateTraceAlloc ==
    /\ gen_pc = "start"
    /\ gen_columns' = [ c \in 1..Len(gen_log_sizes) |->
                          zero_column(gen_fn, gen_log_sizes[c]) ]
    /\ gen_handed' = gen_columns'
    /\ gen_pc' = "execute"
    /\ UNCHANGED << gen_fn, gen_log_sizes, gen_execution, gen_reordered,
                    gen_out >>
    /\ UNCHANGED outsideGen

\* execution(cols.as_mut_slice());
GenerateTraceExecute ==
    /\ gen_pc = "execute"
    /\ LET res == execution(gen_execution, gen_fn, gen_handed)
       IN  IF res.ok
           THEN /\ gen_columns' = res.value
                /\ gen_pc' = "collect"
                /\ UNCHANGED gen_out
           ELSE /\ gen_out' = res
                /\ gen_pc' = "done"
                /\ UNCHANGED gen_columns
    /\ UNCHANGED << gen_fn, gen_log_sizes, gen_execution, gen_handed,
                    gen_reordered >>
    /\ UNCHANGED outsideGen

\* SecureColumnByCoords::from_iter(col).columns: the four coordinate columns
coordinate_columns(col) ==
    [ k \in 1..4 |-> [ j \in DOMAIN col |-> col[j][k] ] ]

\* the evaluations of one column: coset_order_to_circle_domain_order,
\* bit_reverse, CircleEvaluation::new(domain, col); four of them for a
\* secure-field column
column_evaluations(fn, l, reordered) ==
    LET col == bit_reverse(reordered, l)
    IN  IF fn = "generate_trace"
        THEN << CircleEvaluation(l, col) >>
        ELSE [ k \in 1..4 |-> CircleEvaluation(l, coordinate_columns(col)[k]) ]

\* .flat_map(..).collect()
RECURSIVE collect_evaluations(_, _, _, _)
collect_evaluations(fn, log_sizes, reordered, c) ==
    IF c > Len(log_sizes) THEN << >>
    ELSE column_evaluations(fn, log_sizes[c], reordered[c])
           \o collect_evaluations(fn, log_sizes, reordered, c + 1)

\* columns.into_iter().zip(domains).map(..).collect(); the backend's
\* CircleEvaluation::new may reject a column whose length is not the size
\* of its domain
GenerateTraceCollect ==
    /\ gen_pc = "collect"
    /\ gen_reordered' = [ c \in DOMAIN gen_columns |->
                            coset_order_to_circle_domain_order(gen_columns[c]) ]
    /\ LET evals == [ ok |-> TRUE,
                      evals |-> collect_evaluations(gen_fn, gen_log_sizes,
                                                    gen_reordered', 1) ]
           fits == \A c \in DOMAIN gen_columns :
                      Len(gen_reordered'[c]) = Pow2(gen_log_sizes[c])
       IN  gen_out' \in { evals } \cup
                          (IF fits THEN {} ELSE { Panic("column length") })
    /\ gen_pc' = "done"
    /\ UNCHANGED << gen_fn, gen_log_sizes, gen_execution, gen_columns,
                    gen_handed >>
    /\ UNCHANGED outsideGen

----------------------------------------------------------------------------
(* The emulator's AND and LW: vm/src/cpu/instructions/i/and.rs, lw.rs *)

\* a u32 is written as its two 16-bit halves << high, low >>
Half == Pow2(16)
U32(high, low) == << high, low >>

\* u32::MAX, 0xFFFFFFFF
U32_MAX == U32(Half - 1, Half - 1)

\* the registers the instructions name: Register::X1, X2, X3
Registers == 1..3

\* 32-bit values of registers and memory words:
\* 0, 0x1000, 0xAA55AA55, 0xABCDEF12, 0xFFFFFFFF
Words ==
    { U32(0, 0), U32(0, 4096), U32(43605, 43605), U32(43981, 61202), U32_MAX }

\* bitwise AND of the low `bits` bits
RECURSIVE BitAnd(_, _, _)
BitAnd(a, b, bits) ==
    IF bits = 0 THEN 0
    ELSE (a % 2) * (b % 2) + 2 * BitAnd(a \div 2, b \div 2, bits - 1)

\* bitwise OR of the low `bits` bits
RECURSIVE BitOr(_, _, _)
BitOr(a, b, bits) ==
    IF bits = 0 THEN 0
    ELSE (IF (a % 2) + (b % 2) > 0 THEN 1 ELSE 0)
           + 2 * BitOr(a \div 2, b \div 2, bits - 1)

\* the closure |a: u32, b: u32| a | b
or_operation(a, b) == U32(BitOr(a[1], b[1], 16), BitOr(a[2], b[2], 16))

\* the closure |a: u32, b: u32| a & b
and_operation(a, b) == U32(BitAnd(a[1], b[1], 16), BitAnd(a[2], b[2], 16))

\* Instruction::new_ir(Opcode::from(BuiltinOpcode::AND), rd, rs1, rs2)
AndInstructions ==
    [ op : { "AND" }, ins_type : { "RType" }, op_a : Registers,
      op_b : Registers, op_c : Registers ]

\* the immediates of the loads: in range, and past the end of the address
\* space from a base of u32::MAX (1 wraps to 0, 4097 wraps to 4096)
Immediates == { U32(0, 0), U32(0, 1), U32(0, 12), U32(0, 4097) }

\* Instruction::new(Opcode::from(BuiltinOpcode::LW), rd, rs1, imm, IType)
LwInstructions ==
    [ op : { "LW" }, ins_type : { "IType" }, op_a : Registers,
      op_b : Registers, op_c : Immediates ]

\* setup_memory(): a word at 0x1000 and a zero word at 0x100C
Memories ==
    { (U32(0, 4096) :> w) @@ (U32(0, 4108) :> U32(0, 0)) :
        w \in Words \ { U32(0, 0) } }

\* AndInstruction::decode, LwInstruction::decode: rd with its register's
\* value, the value of rs1, and the value of rs2 or the immediate
decode(ins, registers) ==
    IF ins.op = "AND"
    THEN [ rd |-> << ins.op_a, registers[ins.op_a] >>,
           rs1 |-> registers[ins.op_b],
           rs2 |-> registers[ins.op_c] ]
    ELSE [ rd |-> << ins.op_a, registers[ins.op_a] >>,
           rs1 |-> registers[ins.op_b],
           imm |-> ins.op_c ]

VmDecode ==
    /\ vm_pc = "decode"
    /\ vm_instruction' = decode(vm_ins, vm_registers)
    /\ vm_pc' = IF vm_ins.op = "AND" THEN "execute" ELSE "memory_read"
    /\ UNCHANGED << vm_ins, vm_registers, vm_memory, vm_reads, vm_res >>
    /\ UNCHANGED outsideVm

\* AndInstruction::execute: rd takes operation(rs1, rs2)
VmExecute ==
    /\ vm_pc = "execute"
    /\ vm_instruction' =
          [ vm_instruction EXCEPT
              !.rd = << @[1], and_operation(vm_instruction.rs1,
                                            vm_instruction.rs2) >> ]
    /\ vm_pc' = "write_back"
    /\ UNCHANGED << vm_ins, vm_registers, vm_memory, vm_reads, vm_res >>
    /\ UNCHANGED outsideVm

Err(kind) == [ ok |-> FALSE, err |-> kind ]

\* the address of a load computed with wrap-around
wrapping_add(a, b) ==
    LET low == a[2] + b[2]
        high == a[1] + b[1] + low \div Half
    IN  Returned(U32(high % Half, low % Half))

\* the address of a load: an error when rs1 + imm leaves the u32 range
checked_add(a, b) ==
    LET low == a[2] + b[2]
        high == a[1] + b[1] + low \div Half
    IN  IF high >= Half THEN Err("AddressCalculationOverflow")
        ELSE Returned(U32(high, low % Half))

\* MemAccessSize::Word, not sign-extended: the whole u32
load_word(word) == word

\* what memory.read(address, Word) may answer: the word written there,
\* and for an address never written an error or a zero word
memory_read_outcomes(memory, address) ==
    IF address \in DOMAIN memory
    THEN { Returned(load_word(memory[address])) }
    ELSE { Err("InvalidMemoryAccess"), Returned(U32(0, 0)) }

\* LwInstruction::memory_read
VmMemoryRead ==
    /\ vm_pc = "memory_read"
    /\ LET address == checked_add(vm_instruction.rs1, vm_instruction.imm)
       IN  IF ~address.ok
           THEN /\ vm_res' = address
                /\ vm_pc' = "done"
                /\ UNCHANGED << vm_instruction, vm_reads >>
           ELSE /\ vm_reads' = Append(vm_reads, address.value)
                /\ \E read \in memory_read_outcomes(vm_memory, address.value) :
                      IF read.ok
                      THEN /\ vm_instruction' =
                                 [ vm_instruction EXCEPT
                                     !.rd = << @[1], read.value >> ]
                           /\ vm_pc' = "write_back"
                           /\ UNCHANGED vm_res
                      ELSE /\ vm_res' = read
                           /\ vm_pc' = "done"
                           /\ UNCHANGED vm_instruction
    /\ UNCHANGED << vm_ins, vm_registers, vm_memory >>
    /\ UNCHANGED outsideVm

\* write_back: cpu.registers.write(rd.0, rd.1); Some(rd.1)
VmWriteBack ==
    /\ vm_pc = "write_back"
    /\ vm_registers' =
          [ vm_registers EXCEPT ![vm_instruction.rd[1]] = vm_instruction.rd[2] ]
    /\ vm_res' = [ some |-> vm_instruction.rd[2] ]
    /\ vm_pc' = "done"
    /\ UNCHANGED << vm_ins, vm_memory, vm_instruction, vm_reads >>
    /\ UNCHANGED outsideVm

----------------------------------------------------------------------------
(* The system *)

\* the state before prove is entered: no local exists yet
InitLocals ==
    /\ pc = "start"
    /\ log_size = 0
    /\ row_idx = 0
    /\ chip_idx = 0
    /\ prover_traces = Absent
    /\ fill_calls = Absent
    /\ prover_side_note = Absent
    /\ finalized_trace = Absent
    /\ finalized_program_trace = Absent
    /\ prover_channel = Absent
    /\ prover_roots = Absent
    /\ lookup_elements = Absent
    /\ interaction_trace = Absent
    /\ claimed_sum = Absent
    /\ prove_result = Absent
    /\ last_fill = Absent
    /\ interaction_args = Absent
    /\ prove_calls = 0
    /\ side_notes_created = 0
    /\ vpc = "idle"
    /\ vproof = Absent
    /\ vview = Absent
    /\ sim_channel = Absent
    /\ sim_roots = Absent
    /\ dummy_channel = Absent
    /\ sizes = Absent
    /\ verifier_channel = Absent
    /\ verifier_roots = Absent
    /\ verifier_lookup_elements = Absent
    /\ backend_calls = 0
    /\ verify_result = Absent

\* the bitwise lookup before anything has been generated
BitOpLocals ==
    /\ bit_op_refs = << >>
    /\ bit_op_side_note = Absent
    /\ bit_op_lookup_elements = Absent
    /\ bit_op_preprocessed = Absent
    /\ bit_op_original = Absent
    /\ bit_op_interaction = Absent
    /\ bit_op_claimed_sum = Absent
    /\ bit_op_proof = Absent
    /\ bit_op_verify = Absent
    /\ bit_op_perturbed = Absent
    /\ bit_op_relation = Absent

\* the bitwise lookup is not exercised
BitOpIdle ==
    /\ bit_op_pc = "off"
    /\ BitOpLocals

\* no column registry is constructed
ColumnsIdle ==
    /\ col_pc = "off"
    /\ col_items = << >>
    /\ col_iter = 0
    /\ col_next = 0
    /\ col_map = Absent
    /\ col_maps = << >>
    /\ col_call = Absent
    /\ row_buf = Absent
    /\ row_slices = Absent

\* generate_trace is not called
GenLocals ==
    /\ gen_columns = Absent
    /\ gen_handed = Absent
    /\ gen_reordered = Absent
    /\ gen_out = Absent

GenIdle ==
    /\ gen_pc = "off"
    /\ gen_fn = Absent
    /\ gen_log_sizes = << >>
    /\ gen_execution = Absent
    /\ GenLocals

\* no instruction is executed
VmLocals ==
    /\ vm_instruction = Absent
    /\ vm_reads = << >>
    /\ vm_res = Absent

VmIdle ==
    /\ vm_pc = "off"
    /\ vm_ins = Absent
    /\ vm_registers = Absent
    /\ vm_memory = Absent
    /\ VmLocals

\* Machine::prove and Machine::verify are not called
MachineIdle ==
    /\ trace = << >>
    /\ view \in { v \in Views : v.program = "p1" }
    /\ InitLocals

Init ==
    /\ trace \in Traces
    /\ view \in Views
    /\ InitLocals
    /\ BitOpIdle
    /\ ColumnsIdle
    /\ GenIdle
    /\ VmIdle

Next ==
    \/ ProveSetup
    \/ FillMainTrace
    \/ Finalize
    \/ CommitPreprocessed
    \/ CommitMain
    \/ DrawLookupElements
    \/ GenerateInteraction
    \/ CommitInteraction
    \/ CommitProgram
    \/ ProveBackend
    \/ VerifyCall
    \/ CheckClaimedSum
    \/ SimulatePreprocessed
    \/ CheckPreprocessed
    \/ SimulateProgram
    \/ CheckProgram
    \/ DummyComponent
    \/ VerifyCommitPreprocessed
    \/ VerifyCommitMain
    \/ VerifyDrawLookupElements
    \/ VerifyCommitInteraction
    \/ VerifyCommitProgram
    \/ VerifyBackend

Spec == Init /\ [][Next]_vars

\* Calls of prove one after the other, by the same caller.
CallsNext ==
    \/ ProveSetup
    \/ FillMainTrace
    \/ Finalize
    \/ CommitPreprocessed
    \/ CommitMain
    \/ DrawLookupElements
    \/ GenerateInteraction
    \/ CommitInteraction
    \/ CommitProgram
    \/ ProveBackend
    \/ ProveReturn
    \/ ProveCall

CallsSpec == Init /\ [][CallsNext]_vars

\* The sizing step of prove alone, over every combination of lengths up to
\* MaxLen: traces of 0..MaxLen steps, programs of 0..MaxLen instructions,
\* and public memory whose three parts have the lengths of MemoryPartLens.
SizingTraces == { [ i \in 1..n |-> "add" ] : n \in 0..MaxLen }

MemoryPartLens == {0, 1, MaxLen - 1}

SizingViews ==
    [ program : {"p1"}, program_len : 0..MaxLen, init_len : MemoryPartLens,
      exit_len : MemoryPartLens, out_len : MemoryPartLens ]

SizingInit ==
    /\ trace \in SizingTraces
    /\ view \in SizingViews
    /\ InitLocals
    /\ BitOpIdle
    /\ ColumnsIdle
    /\ GenIdle
    /\ VmIdle

SizingNext == ProveSetup

SizingSpec == SizingInit /\ [][SizingNext]_vars

\* The bitwise lookup of one run: the table, the lookups of the consuming
\* chips, the multiplicity columns, the logup columns, the claimed sum.
BitOpInit ==
    /\ MachineIdle
    /\ ColumnsIdle
    /\ GenIdle
    /\ VmIdle
    /\ bit_op_pc = "start"
    /\ BitOpLocals

BitOpNext ==
    \/ BitOpGeneratePreprocessed
    \/ BitOpLookup
    \/ BitOpEndFill
    \/ BitOpGenerateOriginal
    \/ BitOpGenerateInteraction
    \/ BitOpCheckClaimedSum
    \/ BitOpEvaluate

BitOpSpec == BitOpInit /\ [][BitOpNext]_vars

\* Construction of column registries from declaration lists.
ColumnsInit ==
    /\ MachineIdle
    /\ BitOpIdle
    /\ GenIdle
    /\ VmIdle
    /\ col_pc = "new"
    /\ col_items \in DeclarationLists
    /\ col_iter = 0
    /\ col_next = 0
    /\ col_map = Absent
    /\ col_maps = << >>
    /\ col_call = Absent
    /\ row_buf = Absent
    /\ row_slices = Absent

ColumnsNext ==
    \/ ColumnNameMapNew
    \/ ColumnNameMapItem
    \/ ColumnNameMapReturn
    \/ NthCol
    \/ NamedSlices
    \/ SliceWrite
    \/ LookupTraceMasks

ColumnsSpec == ColumnsInit /\ [][ColumnsNext]_vars

\* One call of generate_trace or generate_secure_field_trace.
GenLogSizes ==
    UNION { [ 1..n -> 0..MaxGenLog ] : n \in 0..MaxGenCols }

GenInit ==
    /\ MachineIdle
    /\ BitOpIdle
    /\ ColumnsIdle
    /\ VmIdle
    /\ gen_pc = "start"
    /\ gen_fn \in GenFunctions
    /\ gen_log_sizes \in GenLogSizes
    /\ gen_execution \in Executions
    /\ GenLocals

GenNext ==
    \/ GenerateTraceAlloc
    \/ GenerateTraceExecute
    \/ GenerateTraceCollect

GenSpec == GenInit /\ [][GenNext]_vars

\* One instruction of the emulator on a register file and a memory.
VmInit ==
    /\ MachineIdle
    /\ BitOpIdle
    /\ ColumnsIdle
    /\ GenIdle
    /\ vm_pc = "decode"
    /\ vm_registers \in [ Registers -> Words ]
    /\ \/ vm_ins \in AndInstructions /\ vm_memory = << >>
       \/ vm_ins \in LwInstructions /\ vm_memory \in Memories
    /\ VmLocals

VmNext ==
    \/ VmDecode
    \/ VmExecute
    \/ VmMemoryRead
    \/ VmWriteBack

VmSpec == VmInit /\ [][VmNext]_vars

\* The same run under a test that tampers with one multiplicity.
BitOpPerturbNext ==
    \/ BitOpNext
    \/ PerturbSideNote

BitOpPerturbSpec == BitOpInit /\ [][BitOpPerturbNext]_vars

----------------------------------------------------------------------------
(* Properties of verify and of the prove / verify round trip *)

\* the commitments carried by the proof under verification
ProofCommitments == vproof.stark_proof.commitments

\* what the public inputs of verify determine
ExpectedPreprocessedRoot == MerkleRoot(PreprocessedTraces(vproof.log_size))
ExpectedProgramRoot == MerkleRoot(ProgramTraces(vproof.log_size, vview))

ClaimedSumError == InvalidStructure("claimed logup sum is not zero")
PreprocessedError == InvalidStructure("invalid commitment to preprocessed trace")
ProgramError == InvalidStructure("invalid commitment to program trace")

\* C1: round trip.  prove succeeds on every valid execution trace, and
\* verify of the returned proof with the same view returns Ok.
RoundTrip ==
    /\ (pc = "done" /\ ValidTrace(trace)) => prove_result.ok
    /\ (vpc = "done" /\ vproof = prove_result.proof /\ vview = view)
          => verify_result = [ ok |-> TRUE ]

RoundTripWitness ==
    /\ vpc = "done"
    /\ vproof = prove_result.proof
    /\ vview = view
    /\ Len(trace) >= 1
    /\ verify_result = [ ok |-> TRUE ]

\* C2: a proof whose claimed sum is not zero is rejected by the very first
\* check, with the claimed-sum error, whatever else it carries: nothing is
\* recomputed, nothing is absorbed or drawn, the backend is not called.
NonZeroSumRejectedFirst ==
    (vpc # "idle" /\ vproof.claimed_sum # ZeroSum) =>
        /\ vpc \in { "check_claimed_sum", "done" }
        /\ vpc = "done" => verify_result = ClaimedSumError
        /\ sim_roots = << >> /\ sim_channel = << >>
        /\ dummy_channel = << >> /\ sizes = Absent
        /\ verifier_channel = << >> /\ verifier_roots = << >>
        /\ verifier_lookup_elements = Absent
        /\ backend_calls = 0

NonZeroSumRejectedFirstWitness ==
    /\ vpc = "done"
    /\ vproof.claimed_sum # ZeroSum
    /\ vproof.log_size # log_size
    /\ ProofCommitments # prover_roots
    /\ verify_result = ClaimedSumError

\* C3: early-exit ordering of verify.  The checks run in the order
\* claimed sum, preprocessed commitment, program commitment, backend; the
\* backend runs only when all three structural checks passed; once a
\* structural check has failed nothing later in verify is executed.
EarlyExitState ==
    vpc # "idle" =>
        /\ sim_roots # << >> => vproof.claimed_sum = ZeroSum
        /\ Len(sim_roots) >= 2 =>
              At(ProofCommitments, PREPROCESSED_TRACE_IDX) = ExpectedPreprocessedRoot
        /\ (dummy_channel # << >> \/ verifier_roots # << >> \/ backend_calls > 0) =>
              /\ vproof.claimed_sum = ZeroSum
              /\ At(ProofCommitments, PREPROCESSED_TRACE_IDX) = ExpectedPreprocessedRoot
              /\ At(ProofCommitments, PROGRAM_TRACE_IDX) = ExpectedProgramRoot
        /\ (vpc = "done" /\ verify_result \in { ClaimedSumError, PreprocessedError, ProgramError }) =>
              /\ backend_calls = 0
              /\ dummy_channel = << >> /\ verifier_roots = << >>
              /\ verifier_channel = << >> /\ verifier_lookup_elements = Absent
              /\ verify_result = ClaimedSumError => sim_roots = << >>
              /\ verify_result = PreprocessedError => Len(sim_roots) = 1
              /\ verify_result = ProgramError => Len(sim_roots) = 2
        /\ backend_calls > 0 => vpc = "done"

EarlyExitOrdering ==
    /\ []EarlyExitState
    /\ [][vpc = "done" => UNCHANGED verifierVars]_vars

EarlyExitOrderingWitness ==
    /\ vpc = "done"
    /\ verify_result = ProgramError
    /\ Len(sim_roots) = 2
    /\ backend_calls = 0

\* C4: with a zero claimed sum, a preprocessed commitment that differs from
\* the one recomputed from proof.log_size is rejected with the error naming
\* the preprocessed trace; an equal one is not rejected by this check.
PreprocessedMismatchRejected ==
    (vpc # "idle" /\ vproof.claimed_sum = ZeroSum) =>
        /\ At(ProofCommitments, PREPROCESSED_TRACE_IDX) # ExpectedPreprocessedRoot =>
              /\ vpc \in { "check_claimed_sum", "simulate_preprocessed",
                            "check_preprocessed", "done" }
              /\ vpc = "done" => verify_result = PreprocessedError
        /\ ( /\ At(ProofCommitments, PREPROCESSED_TRACE_IDX) = ExpectedPreprocessedRoot
             /\ vpc = "done" ) => verify_result # PreprocessedError

PreprocessedMismatchRejectedWitness ==
    /\ vpc = "done"
    /\ vproof.claimed_sum = ZeroSum
    /\ At(ProofCommitments, PREPROCESSED_TRACE_IDX) # ExpectedPreprocessedRoot
    /\ verify_result = PreprocessedError

\* C5: when the earlier checks pass, a program commitment that differs from
\* the one recomputed from (log_size, view) is rejected with the error naming
\* the program trace; for the prover's own commitments, view and log_size the
\* second root of the local simulation equals the proof's program commitment.
ProgramMismatchRejected ==
    /\ ( /\ vpc # "idle"
         /\ vproof.claimed_sum = ZeroSum
         /\ At(ProofCommitments, PREPROCESSED_TRACE_IDX) = ExpectedPreprocessedRoot
         /\ At(ProofCommitments, PROGRAM_TRACE_IDX) # ExpectedProgramRoot ) =>
            /\ vpc \in { "check_claimed_sum", "simulate_preprocessed",
                          "check_preprocessed", "simulate_program",
                          "check_program", "done" }
            /\ vpc = "done" => verify_result = ProgramError
    /\ ( /\ vpc # "idle"
         /\ ProofCommitments = prover_roots
         /\ vview = view
         /\ vproof.log_size = log_size
         /\ Len(sim_roots) = 2 ) =>
            /\ program_expected(sim_roots) = At(ProofCommitments, PROGRAM_TRACE_IDX)
            /\ vpc = "done" => verify_result # ProgramError

ProgramMismatchRejectedWitness ==
    /\ vpc = "done"
    /\ ProofCommitments = prover_roots
    /\ vproof.log_size = log_size
    /\ vview # view
    /\ verify_result = ProgramError

----------------------------------------------------------------------------
(* Ordering properties of prove and of the transcript *)

IsMix(entry) == "mix" \in DOMAIN entry
IsDraw(entry) == "draw" \in DOMAIN entry

\* s is an initial segment of t
IsPrefix(s, t) ==
    /\ Len(s) <= Len(t)
    /\ \A i \in 1..Len(s) : s[i] = t[i]

\* the transcript of a run that absorbs four commitments with one draw of
\* lookup elements after the second
Transcript(commitments) ==
    << [mix |-> At(commitments, PREPROCESSED_TRACE_IDX)],
       [mix |-> At(commitments, ORIGINAL_TRACE_IDX)],
       [draw |-> "lookup_elements"],
       [mix |-> At(commitments, INTERACTION_TRACE_IDX)],
       [mix |-> At(commitments, PROGRAM_TRACE_IDX)] >>

\* the four commitments of an honest prover, in protocol order
HonestRoots ==
    << MerkleRoot(PreprocessedEvals), MerkleRoot(MainEvals),
       MerkleRoot(InteractionEvals), MerkleRoot(ProgramEvals) >>

\* C6: challenge ordering in prove.  The lookup elements are drawn from a
\* transcript that has absorbed the preprocessed and the main commitment,
\* and the interaction trace is generated, and committed, only after the
\* lookup elements have been drawn.
ChallengeOrdering ==
    /\ lookup_elements # Absent =>
          /\ finalized_trace # Absent
          /\ Len(prover_roots) >= 2
          /\ lookup_elements =
                DrawnElements(<< [mix |-> MerkleRoot(PreprocessedEvals)],
                                 [mix |-> MerkleRoot(MainEvals)] >>)
    /\ interaction_trace # Absent =>
          /\ lookup_elements # Absent
          /\ interaction_trace.elements = lookup_elements
    /\ Len(prover_roots) >= 3 =>
          /\ interaction_trace # Absent
          /\ At(prover_roots, INTERACTION_TRACE_IDX) = MerkleRoot(interaction_trace)
    /\ \A i \in 1..Len(prover_channel) : IsDraw(prover_channel[i]) => i = 3

ChallengeOrderingWitness ==
    /\ pc = "commit_interaction"
    /\ lookup_elements # Absent
    /\ interaction_trace # Absent
    /\ Len(trace) >= 1

\* C7: a run of prove that reaches the backend has made exactly four
\* commitment rounds on one transcript, in the order preprocessed, main,
\* interaction, program, each absorbed once; the backend runs after the
\* fourth.
FourCommitmentRounds ==
    /\ IsPrefix(prover_roots, HonestRoots)
    /\ SelectSeq(prover_channel, IsMix) =
          [ i \in 1..Len(prover_roots) |-> [mix |-> prover_roots[i]] ]
    /\ pc = "done" =>
          /\ prover_roots = HonestRoots
          /\ Len(SelectSeq(prover_channel, IsMix)) = 4

FourCommitmentRoundsWitness ==
    /\ pc = "done"
    /\ prove_result.ok
    /\ Len(prover_roots) = 4
    /\ Len(trace) >= 1

\* C8: the verifier replays the prover's transcript: two commitments, the
\* draw, two commitments.  For the prover's own commitments the verifier
\* draws the prover's lookup elements and hands the backend a transcript
\* equal to the prover's.
VerifierReplaysTranscript ==
    /\ pc = "done" => prover_channel = Transcript(prover_roots)
    /\ vpc # "idle" =>
          /\ IsPrefix(verifier_channel, Transcript(ProofCommitments))
          /\ backend_calls > 0 =>
                verifier_channel = Transcript(ProofCommitments)
          /\ ProofCommitments = prover_roots =>
                /\ verifier_lookup_elements # Absent =>
                      verifier_lookup_elements = lookup_elements
                /\ backend_calls > 0 => verifier_channel = prover_channel

VerifierReplaysTranscriptWitness ==
    /\ vpc = "done"
    /\ backend_calls > 0
    /\ ProofCommitments = prover_roots
    /\ verifier_lookup_elements = lookup_elements
    /\ verifier_channel = prover_channel

\* the channel absorbed `root` at some position before position n
AbsorbedBefore(channel, root, n) ==
    \E i \in 1..Len(channel) : i < n /\ channel[i] = [mix |-> root]

\* position of the draw of lookup elements in a channel (0: none)
DrawPosition(channel) ==
    IF \E i \in 1..Len(channel) : IsDraw(channel[i])
    THEN CHOOSE i \in 1..Len(channel) : IsDraw(channel[i])
    ELSE 0

\* C9: in prove and in verify the lookup elements are drawn before the
\* program-trace commitment is absorbed, so the transcript they are drawn
\* from does not contain that commitment.
DrawPrecedesProgramCommitment ==
    /\ lookup_elements # Absent =>
          /\ DrawPosition(prover_channel) > 0
          /\ ~AbsorbedBefore(prover_channel, MerkleRoot(ProgramEvals),
                             DrawPosition(prover_channel))
          /\ \A i \in 1..Len(lookup_elements.z) :
                lookup_elements.z[i] # [mix |-> MerkleRoot(ProgramEvals)]
    /\ verifier_lookup_elements # Absent =>
          /\ DrawPosition(verifier_channel) > 0
          /\ ~AbsorbedBefore(verifier_channel,
                             At(ProofCommitments, PROGRAM_TRACE_IDX),
                             DrawPosition(verifier_channel))
          /\ \A i \in 1..Len(verifier_lookup_elements.z) :
                verifier_lookup_elements.z[i]
                    # [mix |-> At(ProofCommitments, PROGRAM_TRACE_IDX)]
    /\ pc = "done" =>
          AbsorbedBefore(prover_channel, MerkleRoot(ProgramEvals),
                         Len(prover_channel) + 1)
    /\ backend_calls > 0 =>
          AbsorbedBefore(verifier_channel,
                         At(ProofCommitments, PROGRAM_TRACE_IDX),
                         Len(verifier_channel) + 1)

DrawPrecedesProgramCommitmentWitness ==
    /\ pc = "done"
    /\ backend_calls > 0
    /\ lookup_elements # Absent
    /\ verifier_lookup_elements # Absent
    /\ DrawPosition(prover_channel) < Len(prover_channel)

\* C10: barrier in prove.  When the main trace is finalized every chip
\* has run on every row, the finalized trace is the filled buffer, and
\* interaction-trace generation starts only after that; after finalize the
\* buffer, the fill calls and the side note do not change any more.
FillBarrierState ==
    /\ finalized_trace # Absent =>
          /\ Len(finalized_trace) = Pow2(log_size)
          /\ \A r \in 1..Len(fill_calls) : fill_calls[r] = NumChips
          /\ finalized_trace = prover_traces
    /\ (interaction_trace # Absent \/ prover_roots # << >>) =>
          finalized_trace # Absent

FillBarrier ==
    /\ []FillBarrierState
    /\ [][finalized_trace # Absent =>
            UNCHANGED << prover_traces, fill_calls, prover_side_note >>]_vars

FillBarrierWitness ==
    /\ pc = "commit_preprocessed"
    /\ finalized_trace # Absent
    /\ finalized_trace[1].value # None
    /\ prover_side_note # NewSideNote
    /\ \A r \in 1..Len(fill_calls) : fill_calls[r] = NumChips

----------------------------------------------------------------------------
(* Sizing *)

MemoryLen(v) == v.init_len + v.exit_len + v.out_len

LargestLen == MaxOf({ Len(trace), view.program_len, MemoryLen(view) })

\* C11: once prove has sized its traces, log_size is the smallest integer
\* L with L >= MIN_LOG_SIZE and 2^L >= max(num_steps, program_len,
\* memory_len), whatever the three lengths are (0, 1, a power of two, one
\* above a power of two); 6 steps and nothing larger give MIN_LOG_SIZE.
SizingIsSmallestPowerOfTwo ==
    pc # "start" =>
        /\ log_size >= MIN_LOG_SIZE
        /\ Pow2(log_size) >= LargestLen
        /\ \A l \in MIN_LOG_SIZE..(log_size - 1) : Pow2(l) < LargestLen
        /\ LargestLen = 6 => log_size = 4
        /\ Len(prover_traces) = Pow2(log_size)

\* a run sized by a trace one step longer than a power of two
SizingWitness ==
    /\ pc # "start"
    /\ Len(trace) = 17
    /\ view.program_len <= 16
    /\ MemoryLen(view) = 0
    /\ log_size = 5

----------------------------------------------------------------------------
(* The fill loop *)

\* the chip call that must follow the call `prev` (Absent: none yet)
IsNextFill(prev, next) ==
    IF prev = Absent
    THEN next.row = 0 /\ next.pos = 1
    ELSE IF prev.pos < NumChips
         THEN next.row = prev.row /\ next.pos = prev.pos + 1
         ELSE next.row = prev.row + 1 /\ next.pos = 1

FillCallsInOrder ==
    last_fill' # last_fill =>
        /\ IsNextFill(last_fill, last_fill')
        /\ last_fill'.chip = BaseComponents[last_fill'.pos]
        /\ last_fill'.pos = NumChips <=> last_fill'.chip = "RangeCheckChip"
        /\ last_fill'.step = IF last_fill'.row < Len(trace)
                             THEN trace[last_fill'.row + 1]
                             ELSE None
        /\ fill_calls'[last_fill'.row + 1] = last_fill'.pos
        /\ \A r \in 1..Len(fill_calls') :
              /\ r < last_fill'.row + 1 => fill_calls'[r] = NumChips
              /\ r > last_fill'.row + 1 => fill_calls'[r] = 0

\* C12: the chips' fill_main_trace calls come one after another in the
\* order row 0 chip 1 .. chip 26, row 1 chip 1 .. : within a row the chips
\* run in the order of the tuple with the range-check chip last, no chip
\* runs on row k+1 before all have run on row k, the call on row k gets the
\* k-th program step (padding once the steps are exhausted), and so every
\* step is consumed exactly once, in the given order.
FillOrder == [][FillCallsInOrder]_vars

\* the range-check chip has closed row 0 and the first chip has started
\* row 1 with the second step
FillOrderWitness ==
    /\ pc = "fill"
    /\ Len(trace) = 2
    /\ last_fill # Absent
    /\ last_fill.row = 1
    /\ last_fill.pos = 1
    /\ last_fill.step = trace[2]
    /\ fill_calls[1] = NumChips

----------------------------------------------------------------------------
(* Inputs of interaction-trace generation *)

InteractionInputs ==
    { "finalized_trace", "preprocessed_trace", "finalized_program_trace",
      "lookup_elements" }

----------------------------------------------------------------------------
(* Backend results *)

\* the three structural checks of verify all pass on its inputs
StructuralChecksPass ==
    /\ vproof.claimed_sum = ZeroSum
    /\ At(ProofCommitments, PREPROCESSED_TRACE_IDX) = ExpectedPreprocessedRoot
    /\ At(ProofCommitments, PROGRAM_TRACE_IDX) = ExpectedProgramRoot

\* what the backend verifier answers on the verifier's final state
BackendVerdict ==
    BackendVerify(MachineComponent(vproof.log_size, verifier_lookup_elements,
                                   vproof.claimed_sum),
                  verifier_channel, verifier_roots, vproof.stark_proof)

\* what the backend prover answers on the prover's final state
BackendProveResult ==
    BackendProve(MachineComponent(log_size, lookup_elements, claimed_sum),
                 prover_channel, prover_roots, finalized_trace)

\* C14: when verify's structural checks all pass, the backend verifier is
\* called once and verify returns exactly its result, acceptance or error;
\* when the backend prover fails, prove returns that same error and no
\* Proof exists (none is returned, none can be handed to verify).
BackendResultsPassThrough ==
    /\ (vpc = "done" /\ StructuralChecksPass) =>
          /\ backend_calls = 1
          /\ verify_result = BackendVerdict
    /\ (pc = "done" /\ ~BackendProveResult.ok) =>
          /\ prove_result = BackendProveResult
          /\ "proof" \notin DOMAIN prove_result
          /\ vpc = "idle"
    /\ (pc = "done" /\ BackendProveResult.ok) =>
          /\ prove_result.ok
          /\ prove_result.proof.stark_proof = BackendProveResult.stark_proof

\* a forged proof passed the structural checks and the backend's error
\* came back from verify
BackendResultsPassThroughWitness ==
    /\ vpc = "done"
    /\ StructuralChecksPass
    /\ backend_calls = 1
    /\ verify_result = [ ok |-> FALSE, err |-> "BackendVerificationError" ]

\* prove has returned the backend prover's error
BackendProveErrorReached ==
    /\ pc = "done"
    /\ prove_result = [ ok |-> FALSE, err |-> "ConstraintsNotSatisfied" ]

----------------------------------------------------------------------------
(* The fields of the Proof and the size of the traces *)

ProofFields == { "stark_proof", "claimed_sum", "log_size" }

\* C15: the Proof of a successful prove consists of the backend's proof,
\* the claimed_sum the interaction-trace generation returned and the
\* log_size prove computed from its inputs at the start; verify reads
\* these three fields of the proof it is given, and every trace it
\* recomputes, every column size it announces and the component it hands
\* to the backend are built with that proof's log_size.
ProofCarriesSumAndSize ==
    /\ (pc = "done" /\ prove_result.ok) =>
          /\ DOMAIN prove_result.proof = ProofFields
          /\ prove_result.proof.stark_proof = BackendProveResult.stark_proof
          /\ prove_result.proof.claimed_sum =
                GenerateInteractionTrace(
                    interaction_args.finalized_trace,
                    interaction_args.preprocessed_trace,
                    interaction_args.finalized_program_trace,
                    interaction_args.lookup_elements).claimed_sum
          /\ prove_result.proof.log_size = ProveLogSize(trace, view)
          /\ Len(fill_calls) = Pow2(prove_result.proof.log_size)
    /\ vpc # "idle" =>
          /\ Len(sim_roots) >= 1 =>
                sim_roots[1] = MerkleRoot(PreprocessedTraces(vproof.log_size))
          /\ Len(sim_roots) >= 2 =>
                sim_roots[2] = MerkleRoot(ProgramTraces(vproof.log_size, vview))
          /\ sizes # Absent =>
                \A idx \in DOMAIN sizes : sizes[idx] = vproof.log_size
          /\ \A i \in 1..Len(verifier_roots) :
                /\ verifier_roots[i].sizes = vproof.log_size
                /\ verifier_roots[i].root = ProofCommitments[i]
          /\ (vpc = "done" /\ backend_calls = 1) =>
                verify_result = BackendVerdict

\* verify has accepted the proof of a run whose log_size exceeds the minimum
ProofCarriesSumAndSizeWitness ==
    /\ vpc = "done"
    /\ vproof = prove_result.proof
    /\ vproof.log_size = 5
    /\ verify_result = [ ok |-> TRUE ]

\* C16: within one prove call the preprocessed, the main and the program
\* trace are all built with prove's log_size, so that each has 2^log_size
\* rows; within one verify call the recomputed preprocessed trace and the
\* recomputed program trace are both built with the proof's log_size.
OneLogSizePerCall ==
    /\ pc # "start" => Len(prover_traces) = Pow2(log_size)
    /\ finalized_trace # Absent =>
          /\ Len(finalized_trace) = Pow2(log_size)
          /\ finalized_program_trace.log_size = log_size
    /\ Len(prover_roots) > PREPROCESSED_TRACE_IDX =>
          At(prover_roots, PREPROCESSED_TRACE_IDX).root.log_size = log_size
    /\ Len(prover_roots) > ORIGINAL_TRACE_IDX =>
          Len(At(prover_roots, ORIGINAL_TRACE_IDX).root.columns) = Pow2(log_size)
    /\ Len(prover_roots) > PROGRAM_TRACE_IDX =>
          At(prover_roots, PROGRAM_TRACE_IDX).root.log_size = log_size
    /\ \A i \in 1..Len(sim_roots) : sim_roots[i].root.log_size = vproof.log_size

\* prove has committed all its traces at a log_size above the minimum, and
\* verify has recomputed both of its traces for the proof of that run
OneLogSizePerCallWitness ==
    /\ Len(prover_roots) = 4
    /\ log_size = 5
    /\ Len(sim_roots) = 2
    /\ vproof.log_size = 5
    /\ sim_roots[2].root.log_size = 5

----------------------------------------------------------------------------
(* The bitwise table *)

\* bit k of x
Bit(x, k) == (x \div Pow2(k)) % 2

\* the value held by row `row` (counted from 0) of preprocessed column k
TableCell(k, row) == bit_op_preprocessed[k].values[row + 1]

\* C17: the preprocessed bitwise table has exactly 256 rows in each of its
\* five columns, and for all b, c in [0,16) row 16*b + c holds b, c and,
\* bit by bit, b AND c, b OR c and b XOR c; no other row holds (b, c).
BitwiseTableCorrect ==
    bit_op_preprocessed # Absent =>
        /\ Len(bit_op_preprocessed) = 5
        /\ \A k \in 1..5 :
              /\ Len(bit_op_preprocessed[k].values) = 256
              /\ bit_op_preprocessed[k].log_size = 8
        /\ \A b \in 0..15, c \in 0..15 :
              LET row == 16 * b + c
              IN  /\ TableCell(1, row) = b
                  /\ TableCell(2, row) = c
                  /\ TableCell(3, row) \in 0..15
                  /\ TableCell(4, row) \in 0..15
                  /\ TableCell(5, row) \in 0..15
                  /\ \A k \in 0..3 :
                        /\ Bit(TableCell(3, row), k) = 1
                              <=> (Bit(b, k) = 1 /\ Bit(c, k) = 1)
                        /\ Bit(TableCell(4, row), k) = 1
                              <=> (Bit(b, k) = 1 \/ Bit(c, k) = 1)
                        /\ Bit(TableCell(5, row), k) = 1
                              <=> (Bit(b, k) = 1) # (Bit(c, k) = 1)
        /\ Cardinality({ << TableCell(1, row), TableCell(2, row) >> :
                            row \in 0..255 }) = 256

\* the table has been generated; its row 16*12 + 10 holds 12, 10, 8, 14, 6
BitwiseTableCorrectWitness ==
    /\ bit_op_preprocessed # Absent
    /\ TableCell(1, 202) = 12
    /\ TableCell(2, 202) = 10
    /\ TableCell(3, 202) = 8
    /\ TableCell(4, 202) = 14
    /\ TableCell(5, 202) = 6
    /\ bit_op_pc = "done"

----------------------------------------------------------------------------
(* The logup balance of the bitwise lookup *)

\* how many lookups of operation op the consuming chips made in the table
\* row `key`
RefCount(op, key) ==
    NumLookups({ r \in DOMAIN bit_op_refs :
                   r.op = op /\ 16 * r.b + r.c = key }, bit_op_refs)

\* every multiplicity of the side note is the number of lookups of its entry
MultiplicitiesMatchLookups ==
    \A k \in 1..3, key \in 0..255 :
        MapGet(bit_op_side_note[BitOps[k]], key) = RefCount(BitOps[k], key)

\* the consuming side of the run's logup sum
ConsumingSide == ConsumingSum(bit_op_refs, bit_op_lookup_elements)

\* C18: the table side writes, for each of AND, OR, XOR and each of the 256
\* table entries, exactly one fraction, whose numerator is minus the side
\* note's multiplicity of that entry and whose denominator is
\* combine(z, [op, b, c, result]); when every multiplicity equals the number
\* of lookups of its entry, each adding +1 over the same denominator, the
\* table-side sum is the negation of the consuming-side sum and the total
\* claimed sum is zero.
ZeroSumBalance ==
    bit_op_pc \in { "verify", "done" } =>
        /\ Len(bit_op_interaction) = 3
        /\ \A k \in 1..3 :
              /\ Len(bit_op_interaction[k]) = 256
              /\ \A e \in 1..256 :
                    /\ bit_op_interaction[k][e].num =
                          -(MapGet(bit_op_side_note[BitOps[k]], e - 1) % M31_P)
                    /\ bit_op_interaction[k][e].denom =
                          combine(bit_op_lookup_elements,
                                  << BitOps[k], (e - 1) \div 16, (e - 1) % 16,
                                     TableCell(2 + k, e - 1) >>)
        /\ MultiplicitiesMatchLookups =>
              /\ DOMAIN bit_op_claimed_sum = DOMAIN ConsumingSide
              /\ \A d \in DOMAIN ConsumingSide :
                    bit_op_claimed_sum[d] = -ConsumingSide[d]
              /\ bit_op_proof.claimed_sum = SecureFieldZero

\* one entry was looked up twice and the table side has cancelled it
ZeroSumBalanceWitness ==
    /\ bit_op_pc = "done"
    /\ MultiplicitiesMatchLookups
    /\ MapGet(bit_op_side_note["Xor"], 16 * 3 + 5) = 2
    /\ bit_op_claimed_sum # SecureFieldZero
    /\ bit_op_proof.claimed_sum = SecureFieldZero
    /\ bit_op_verify = [ ok |-> TRUE ]

\* the run's proof exists and one multiplicity was tampered with before
\* the interaction trace was generated
PerturbedProof ==
    /\ bit_op_perturbed # Absent
    /\ bit_op_pc \in { "verify", "done" }

\* the tampered run's claimed sum is not zero and verify rejects its proof
PerturbationRejected ==
    /\ bit_op_proof.claimed_sum # SecureFieldZero
    /\ bit_op_pc = "done" => bit_op_verify = ClaimedSumError

----------------------------------------------------------------------------
(* The layout of a column registry *)

\* the sum of the sizes of the first n declared columns
RECURSIVE SizesBefore(_)
SizesBefore(n) == IF n = 0 THEN 0 ELSE SizesBefore(n - 1) + col_items[n].size

\* the limbs a range owns
Limbs(range) == range.start..(range.end - 1)

\* the layout of one constructed registry
LayoutOf(self) ==
    /\ DOMAIN self.map = { col_items[i].name : i \in 1..Len(col_items) }
    /\ \A i \in 1..Len(col_items) :
          /\ self.map[col_items[i].name].start = SizesBefore(i - 1)
          /\ self.map[col_items[i].name].end =
                SizesBefore(i - 1) + col_items[i].size
    /\ \A i, j \in 1..Len(col_items) :
          i # j => Limbs(self.map[col_items[i].name])
                     \cap Limbs(self.map[col_items[j].name]) = {}
    /\ UNION { Limbs(self.map[n]) : n \in DOMAIN self.map }
          = 0..(total_columns(self) - 1)
    /\ total_columns(self) = SizesBefore(Len(col_items))

\* C20: ColumnNameMap::new gives each declared column, in declaration
\* order, the range [sum of the sizes before it, that sum + its size); the
\* ranges of distinct columns are pairwise disjoint and together cover
\* [0, total_columns()), total_columns() being the sum of all sizes; and
\* two constructions from the same declaration list give the same ranges.
ColumnLayout ==
    /\ \A k \in 1..Len(col_maps) : LayoutOf(col_maps[k])
    /\ Len(col_maps) = 2 => col_maps[1] = col_maps[2]

\* the registry of enum Column has been constructed twice: 87 limbs, of
\* which Helper1 owns 81..84
ColumnLayoutWitness ==
    /\ col_pc = "done"
    /\ col_items = Column
    /\ Len(col_maps) = 2
    /\ total_columns(col_maps[2]) = 87
    /\ col_maps[2].map["Helper1"] = [ start |-> 81, end |-> 85 ]

----------------------------------------------------------------------------
(* The uses of a column registry *)

\* the declared size of a column, 0 for a name that is not declared
SizeOf(name) ==
    LET idx == { i \in 1..Len(col_items) : col_items[i].name = name }
    IN  IF idx = {} THEN 0 ELSE col_items[CHOOSE i \in idx : TRUE].size

IsDeclared(name) == \E i \in 1..Len(col_items) : col_items[i].name = name

\* C21: nth_col(name, offset) returns range(name).start + offset, an index
\* inside the range of `name` and inside no other column's range, when the
\* column is in the map and offset < size(name); in every other case it
\* panics and returns no index.
NthColInRangeOrPanic ==
    (col_call # Absent /\ col_call.fn = "nth_col") =>
        LET self == col_maps[1]
            name == col_call.name
            offset == col_call.offset
            result == col_call.result
        IN  IF IsDeclared(name) /\ offset < SizeOf(name)
            THEN /\ result = Returned(self.map[name].start + offset)
                 /\ result.value \in Limbs(self.map[name])
                 /\ \A other \in DOMAIN self.map :
                       other # name => result.value \notin Limbs(self.map[other])
            ELSE ~result.ok

\* Helper1[3] of enum Column is limb 84, and the next offset panics
NthColWitness ==
    /\ col_items = Column
    /\ col_call # Absent
    /\ col_call.fn = "nth_col"
    /\ col_call.name = "Helper1"
    /\ col_call.offset = 3
    /\ col_call.result = Returned(84)
    /\ ~nth_col(col_maps[1], "Helper1", 4).ok

\* the cells of a slice
CellsOf(slice) == { slice[k] : k \in 1..Len(slice) }

\* the buffer positions that no longer hold the initial zero
Written == { k \in 0..(Len(row_buf) - 1) : At(row_buf, k) # 0 }

\* C22: on a buffer at least as long as the registry is wide, named_slices
\* returns one slice per declared column; the slice of column X is the
\* run of size(X) consecutive cells range(X).start .. range(X).end - 1 that
\* ColumnNameMap::new assigns to X, so the slices of distinct columns share
\* no cell; a write through the slice of X at an index below size(X)
\* changes that one cell of X's range and no other cell of the buffer, and
\* a write at any other index, or through an undeclared name, panics and
\* changes nothing.  On a shorter buffer named_slices panics.
NamedSlicesIsolation ==
    col_pc = "slices" =>
        LET self == col_maps[1]
        IN  /\ row_slices.ok <=> Len(row_buf) >= total_columns(self)
            /\ row_slices.ok =>
                  /\ DOMAIN row_slices.map = DOMAIN self.map
                  /\ \A X \in DOMAIN row_slices.map :
                        /\ Len(row_slices.map[X]) = SizeOf(X)
                        /\ row_slices.map[X] =
                              [ k \in 1..SizeOf(X) |-> self.map[X].start + k - 1 ]
                        /\ CellsOf(row_slices.map[X]) = Limbs(self.map[X])
                  /\ \A X, Y \in DOMAIN row_slices.map :
                        X # Y => CellsOf(row_slices.map[X])
                                   \cap CellsOf(row_slices.map[Y]) = {}
            /\ col_call.fn = "named_slices" => Written = {}
            /\ col_call.fn = "write" =>
                  IF IsDeclared(col_call.name)
                       /\ col_call.offset < SizeOf(col_call.name)
                  THEN /\ col_call.result.ok
                       /\ Written =
                             { self.map[col_call.name].start + col_call.offset }
                       /\ Written \subseteq Limbs(self.map[col_call.name])
                  ELSE /\ ~col_call.result.ok
                       /\ Written = {}

\* a row of enum Column split into its 30 slices, and limb 84 written
\* through the slice of Helper1
NamedSlicesWitness ==
    /\ col_pc = "slices"
    /\ col_items = Column
    /\ Len(row_buf) = 87
    /\ row_slices.ok
    /\ row_slices.map["Helper1"] = << 81, 82, 83, 84 >>
    /\ col_call.fn = "write"
    /\ col_call.name = "Helper1"
    /\ Written = { 84 }

----------------------------------------------------------------------------
(* Trace generation *)

\* the values a column holds, as a bag
ValueBag(col) ==
    [ v \in { col[j] : j \in DOMAIN col } |->
        Cardinality({ j \in DOMAIN col : col[j] = v }) ]

\* C23: for every column of n = 2^log_size rows, log_size >= 0,
\* coset_order_to_circle_domain_order returns a sequence of the same length
\* n with out[i] = in[2i] and out[n/2 + i] = in[n - 1 - 2i] for i < n/2,
\* which holds every value of its input exactly as often as the input does.
ReorderingIsBijection ==
    gen_reordered # Absent =>
        \A c \in DOMAIN gen_columns :
            LET in == gen_columns[c]
                out == gen_reordered[c]
                n == Pow2(gen_log_sizes[c])
            IN  /\ Len(in) = n
                /\ Len(out) = n
                /\ \A i \in 0..(n \div 2 - 1) :
                      /\ At(out, i) = At(in, 2 * i)
                      /\ At(out, n \div 2 + i) = At(in, n - 1 - 2 * i)
                /\ ValueBag(out) = ValueBag(in)

\* the evaluations generated from column c: one for a base-field column,
\* four for a secure-field column
EvaluationsOf(c) ==
    IF gen_fn = "generate_trace" THEN { c }
    ELSE { 4 * (c - 1) + k : k \in 1..4 }

\* C24: generate_trace and generate_secure_field_trace hand the closure one
\* column per requested log_size, of exactly 2^log_size entries, all zero;
\* after the closure has run there are as many columns with as many rows
\* as before; and every evaluation returned for a column the closure left
\* unwritten holds only zeros.
TraceAllocation ==
    /\ gen_handed # Absent =>
          /\ Len(gen_handed) = Len(gen_log_sizes)
          /\ \A c \in DOMAIN gen_handed :
                /\ Len(gen_handed[c]) = Pow2(gen_log_sizes[c])
                /\ \A r \in DOMAIN gen_handed[c] :
                      gen_handed[c][r] = FieldZero(gen_fn)
    /\ gen_columns # Absent =>
          /\ Len(gen_columns) = Len(gen_log_sizes)
          /\ \A c \in DOMAIN gen_columns :
                Len(gen_columns[c]) = Pow2(gen_log_sizes[c])
    /\ (gen_out # Absent /\ gen_out.ok) =>
          /\ DOMAIN gen_out.evals =
                UNION { EvaluationsOf(c) : c \in DOMAIN gen_columns }
          /\ \A c \in DOMAIN gen_columns :
                gen_columns[c] = gen_handed[c] =>
                    \A e \in EvaluationsOf(c) :
                        /\ gen_out.evals[e].log_size = gen_log_sizes[c]
                        /\ \A j \in DOMAIN gen_out.evals[e].values :
                              gen_out.evals[e].values[j] = 0

\* generate_secure_field_trace with a column of 4 rows, which the closure
\* marks, and a column of 2 rows, which it leaves alone: 8 evaluations,
\* the last four all zero
TraceAllocationWitness ==
    /\ gen_pc = "done"
    /\ gen_fn = "generate_secure_field_trace"
    /\ gen_log_sizes = << 2, 1 >>
    /\ gen_execution = "mark_first_column"
    /\ gen_handed = << << << 0, 0, 0, 0 >>, << 0, 0, 0, 0 >>,
                          << 0, 0, 0, 0 >>, << 0, 0, 0, 0 >> >>,
                       << << 0, 0, 0, 0 >>, << 0, 0, 0, 0 >> >> >>
    /\ gen_out.ok
    /\ Len(gen_out.evals) = 8
    /\ gen_out.evals[1].values # << 0, 0, 0, 0 >>
    /\ gen_out.evals[5].values = << 0, 0 >>
    /\ gen_out.evals[8].values = << 0, 0 >>

----------------------------------------------------------------------------
(* The Side Note of a prove call *)

\* how often the steps of a trace look up key k
LookupsOf(t, k) == Cardinality({ i \in 1..Len(t) : LookupKey(t[i]) = k })

\* the number of fill_main_trace calls of chips made so far
RECURSIVE FillCallsUpTo(_, _)
FillCallsUpTo(calls, r) ==
    IF r = 0 THEN 0 ELSE calls[r] + FillCallsUpTo(calls, r - 1)

\* between two calls of prove, and before the first
NoCallRunning == pc = "returned" \/ (pc = "start" /\ prove_calls = 0)

SideNoteLifetime ==
    \* one SideNote::new per call of prove
    /\ side_notes_created = prove_calls
    \* no Side Note before the call has created it or after it has returned
    /\ (pc \in { "start", "returned" }) => prover_side_note = Absent
    /\ (pc \notin { "start", "returned" }) => prover_side_note # Absent
    \* the Proof handed back does not hold it
    /\ (prove_result # Absent /\ prove_result.ok) =>
          DOMAIN prove_result.proof = ProofFields
    \* it starts empty in every call and then holds the lookups of this
    \* call's trace only
    /\ (pc = "fill" /\ row_idx = 0 /\ chip_idx = 1) =>
          prover_side_note = NewSideNote
    /\ (pc \notin { "start", "fill", "returned" }) =>
          \A k \in LookupKeys : prover_side_note[k] = LookupsOf(trace, k)

\* a step that changes the Side Note is one fill_main_trace call of one chip
SideNoteHeldByOneChip ==
    (prover_side_note # Absent /\ prover_side_note' # Absent
        /\ prover_side_note' # prover_side_note) =>
            /\ pc = "fill"
            /\ FillCallsUpTo(fill_calls', Len(fill_calls'))
                  = FillCallsUpTo(fill_calls, Len(fill_calls)) + 1
            /\ last_fill'.chip = NextChip
            /\ prover_side_note' =
                  ChipFillSideNote(last_fill'.chip, last_fill'.step,
                                   prover_side_note)

\* C25: every call of prove creates exactly one Side Note; the Side Note
\* exists only while the call runs, is not part of the Proof returned, starts
\* empty in every call and holds the lookups of that call's trace only; and
\* during the fill loop every change of it is made by one fill_main_trace
\* call of one chip at a time.
SideNoteDiscipline ==
    /\ []SideNoteLifetime
    /\ [][SideNoteHeldByOneChip]_vars

\* a second call of prove, on a trace of two steps without an AND step:
\* after its fill loop its Side Note holds these two lookups and no other
SideNoteDisciplineWitness ==
    /\ prove_calls = 2
    /\ side_notes_created = 2
    /\ pc = "finalize"
    /\ Len(trace) = 2
    /\ prover_side_note["and"] = 0
    /\ prover_side_note["add"] = 2

----------------------------------------------------------------------------
(* The instructions of the emulator *)

\* bit k of a 32-bit value is set
BitSet(x, k) ==
    IF k < 16 THEN (x[2] \div Pow2(k)) % 2 = 1
    ELSE (x[1] \div Pow2(k - 16)) % 2 = 1

Exceeds(a, b) ==
    LET left == U32(Half - 1 - a[1], Half - 1 - a[2])
    IN  b[1] > left[1] \/ (b[1] = left[1] /\ b[2] > left[2])

ReferencesTo(op, b, c) ==
    NumLookups({ r \in DOMAIN bit_op_refs :
                   r.op = op /\ r.b = b /\ r.c = c }, bit_op_refs)

\* C28: generate_original_trace yields one multiplicity column for each of
\* AND, OR, XOR, in that order, of exactly 256 rows; row i (from 0) holds the
\* Side Note's multiplicity under key i and 0 where the Side Note has no
\* entry; row 16*b + c sits beside row (b, c) of the preprocessed table and
\* holds the number of times the chips referenced (b, c).
MultiplicityColumns ==
    bit_op_original # Absent =>
        /\ Len(bit_op_original) = 3
        /\ \A k \in 1..3 :
              LET op == << "And", "Or", "Xor" >>[k]
                  col == bit_op_original[k].values
                  note == bit_op_side_note[op]
              IN  /\ bit_op_original[k].log_size = 8
                  /\ DOMAIN col = 1..256
                  /\ \A i \in 0..255 :
                        col[i + 1] = IF i \in DOMAIN note THEN note[i] ELSE 0
                  /\ \A b \in 0..15, c \in 0..15 :
                        /\ bit_op_preprocessed[1].values[16 * b + c + 1] = b
                        /\ bit_op_preprocessed[2].values[16 * b + c + 1] = c
                        /\ col[16 * b + c + 1] = ReferencesTo(op, b, c)

\* 3 & 5 was looked up once and 12 | 10 once: row 53 of the AND column and
\* row 202 of the OR column hold 1, the mirrored row 83 and the whole XOR
\* column hold 0
MultiplicityColumnsWitness ==
    /\ bit_op_original # Absent
    /\ ReferencesTo("And", 3, 5) = 1
    /\ ReferencesTo("Or", 12, 10) = 1
    /\ bit_op_original[1].values[16 * 3 + 5 + 1] = 1
    /\ bit_op_original[2].values[16 * 12 + 10 + 1] = 1
    /\ bit_op_original[1].values[16 * 5 + 3 + 1] = 0
    /\ \A i \in 1..256 : bit_op_original[3].values[i] = 0

\* the relation entries of all rows, one after the other
AllRelationEntries ==
    [ i \in 1..(3 * 256) |->
        bit_op_relation[((i - 1) \div 3) + 1][((i - 1) % 3) + 1] ]

\* C29: for every row of the bitwise table the relation entries declared
\* by BitOpMultiplicityEval::evaluate are the fractions written by
\* generate_interaction_trace: the operations AND, OR, XOR in that order,
\* the tuple [op_type, b, c, result] of the preprocessed columns, and the
\* numerator minus the multiplicity of the operation's column; the sum of
\* the declared entries is the claimed sum the generator returned.
ConstraintsMatchTrace ==
    bit_op_relation # Absent =>
        /\ \A row \in 1..256 :
              /\ Len(bit_op_relation[row]) = 3
              /\ \A k \in 1..3 :
                    LET entry == bit_op_relation[row][k]
                        frac == bit_op_interaction[k][row]
                    IN  /\ entry.num = frac.num
                        /\ entry.denom = frac.denom
                        /\ entry.num = -bit_op_original[k].values[row]
                        /\ entry.denom.tuple =
                              << << "And", "Or", "Xor" >>[k],
                                 bit_op_preprocessed[1].values[row],
                                 bit_op_preprocessed[2].values[row],
                                 bit_op_preprocessed[2 + k].values[row] >>
        /\ SumOfFractions(AllRelationEntries) = bit_op_claimed_sum

\* the constraints were evaluated after 12 | 10 was looked up: the entry of
\* OR at row 202 has numerator -1 over [Or, 12, 10, 14], and the claimed
\* sum of the table side is not zero
ConstraintsMatchTraceWitness ==
    /\ bit_op_relation # Absent
    /\ bit_op_relation[16 * 12 + 10 + 1][2].num = -1
    /\ bit_op_relation[16 * 12 + 10 + 1][2].denom.tuple = << "Or", 12, 10, 14 >>
    /\ bit_op_relation[16 * 12 + 10 + 1][3].num = 0
    /\ bit_op_claimed_sum # SecureFieldZero

\* the statements of verify between its first simulated commitment and the
\* absorption of the proof's first commitment
BeforeFirstAbsorption ==
    { "check_preprocessed", "simulate_program", "check_program",
      "dummy_component", "commit_preprocessed" }

\* up to the absorption of the proof's first commitment, verify's own
\* channel and commitment scheme are as created, whatever the simulation
\* and the placeholder draw did to theirs
VerifierTranscriptInitial ==
    /\ vpc \in BeforeFirstAbsorption =>
          /\ verifier_channel = << >>
          /\ verifier_roots = << >>
    /\ vpc = "commit_preprocessed" =>
          /\ Len(sim_channel) = 2
          /\ Len(sim_roots) = 2
          /\ dummy_channel = << [draw |-> "lookup_elements"] >>
    /\ vpc = "backend" =>
          /\ Len(verifier_roots) = 4
          /\ Len(verifier_channel) = 5

\* a step that changes verify's channel or commitment scheme is the
\* absorption of one commitment of the proof or the one real draw, and it
\* leaves the simulation's and the placeholder's instances alone
VerifierTranscriptStep ==
    << verifier_channel, verifier_roots >>' # << verifier_channel, verifier_roots >> =>
        /\ UNCHANGED << sim_channel, sim_roots, dummy_channel >>
        /\ \/ \E idx \in 0..3 :
                 LET commitment == vproof.stark_proof.commitments[idx + 1]
                 IN  /\ vpc = << "commit_preprocessed", "commit_main",
                                 "commit_interaction", "commit_program" >>[idx + 1]
                     /\ verifier_channel' =
                           verifier_channel \o << [mix |-> commitment] >>
                     /\ Len(verifier_roots') = Len(verifier_roots) + 1
                     /\ verifier_roots'[Len(verifier_roots')].root = commitment
                     /\ SubSeq(verifier_roots', 1, Len(verifier_roots)) = verifier_roots
           \/ /\ vpc = "draw"
              /\ verifier_channel' =
                    verifier_channel \o << [draw |-> "lookup_elements"] >>
              /\ verifier_roots' = verifier_roots

\* C30: the simulated commitments (preprocessed, program) and the
\* placeholder lookup-element draw of verify act on channel and
\* commitment-scheme instances of their own: when verify absorbs the
\* proof's first commitment its own transcript and commitment scheme are
\* still in their initial state, and they are advanced only by the four
\* proof commitments and the one real lookup-element draw.
VerifierTranscriptIsolation ==
    /\ []VerifierTranscriptInitial
    /\ [][VerifierTranscriptStep]_vars

\* verify is about to absorb the proof's first commitment: the simulation
\* has committed twice and the placeholder draw has happened, each on its
\* own channel, and both recomputed roots matched the proof
VerifierTranscriptIsolationWitness ==
    /\ vpc = "commit_preprocessed"
    /\ verifier_channel = << >>
    /\ verifier_roots = << >>
    /\ Len(sim_channel) = 2
    /\ sim_roots[1] = vproof.stark_proof.commitments[1]
    /\ sim_roots[2] = vproof.stark_proof.commitments[4]
    /\ dummy_channel # << >>

\* the lookup elements a component of this run may be built from: the
\* placeholder's, the verifier's real ones and the prover's
LookupElementChoices ==
    { DrawnElements(DefaultChannel), lookup_elements }
        \cup (IF verifier_lookup_elements = Absent
              THEN {}
              ELSE { verifier_lookup_elements })

\* the log sizes of the four traces the prover committed, by phase
CommittedLogSizes ==
    [ idx \in 0..3 |->
        CASE idx = PREPROCESSED_TRACE_IDX -> PreprocessedEvals.log_size
          [] idx = ORIGINAL_TRACE_IDX ->
               CHOOSE l \in 0..16 : Pow2(l) = Len(MainEvals.columns)
          [] idx = INTERACTION_TRACE_IDX ->
               CHOOSE l \in 0..16 : Pow2(l) = Len(InteractionEvals.fractions)
          [] idx = PROGRAM_TRACE_IDX -> ProgramEvals.log_size ]

MasksOfRange(interaction, offset, range) ==
    [ j \in 1..(range.end - range.start) |->
        [ interaction |-> interaction, column |-> range.start + j - 1,
          offset |-> offset ] ]

\* C32: lookup_trace_masks_with_offsets gives every column X of the
\* registry exactly the masks at the absolute positions range(X).start ..
\* range(X).end, for every declaration list, whether or not the order of
\* its names as keys is the order of their declaration.
MasksFollowLayout ==
    (col_call # Absent /\ col_call.fn = "lookup_trace_masks_with_offsets") =>
        \A n \in 1..Len(col_call.offsets) :
            \A name \in DOMAIN col_maps[1].map :
                LET range == col_maps[1].map[name]
                IN  range.end > range.start =>
                      /\ name \in DOMAIN col_call.result[n]
                      /\ col_call.result[n][name] =
                            MasksOfRange(col_call.interaction,
                                         col_call.offsets[n], range)


====
